---- MODULE Spec2Model ----
(***************************************************************************)
(* Execution lifecycle of the coding-agent orchestrator.                   *)
(*                                                                         *)
(* The running-execution registry (backend/src/app_state.rs) is modelled   *)
(* from its code: a map execution id -> RunningExecution behind one        *)
(* tokio Mutex, with has_running_execution, add_running_execution,         *)
(* get_running_executions_for_monitor (reap_terminated) and                *)
(* stop_running_execution_by_id (stop).                                    *)
(*                                                                         *)
(* The execution monitor (execution_monitor.rs), the execution_process     *)
(* rows (models/) and the attempt routes (routes/task_attempts.rs) are     *)
(* modules of the repository whose files are not part of the sources at    *)
(* hand; they are modelled from sections 4.4, 4.5 and 7 of the             *)
(* specification.                                                          *)
(***************************************************************************)
EXTENDS Integers, Sequences, FiniteSets, TLC

VARIABLES
    running_executions, \* AppState.running_executions: id -> RunningExecution
    lock,               \* holder of the registry Mutex: 0 is free, else a handler
    child,              \* the OS processes behind the child handles, by execution id
    rows,               \* execution_process table: row id is the index
    attempts,           \* task_attempt table: "absent", "created" or "failed"
    mon_pc,             \* execution monitor: position in its cycle
    completed,          \* execution monitor: the vector reap_terminated returned
    mon_i,              \* execution monitor: index of the tuple being handled
    mon_new,            \* execution monitor: id of the row of the stage it starts
    h,                  \* API request handlers: position and locals
    norm_pc,            \* log normalizer: position of the call being followed
    logs,               \* normalize_logs: the lines of its logs argument
    worktree_path,      \* the worktree path argument of the call
    line_no,            \* normalize_logs: lines the loop has consumed
    entries,            \* normalize_logs: the entries vector
    session_id,         \* normalize_logs: the session id Option
    call_tool,          \* extract_action_type: the tool_name argument
    call_input,         \* extract_action_type: the input argument
    action_type,        \* the ActionType extract_action_type returned
    concise,            \* the string generate_concise_content returned
    call_path,          \* make_path_relative: the path argument
    joined,             \* the relative path the path argument was joined from
    relative,           \* the string make_path_relative returned
    projects,           \* database: the ids of the rows of the project table
    tasks,              \* database: the rows of the task table
    request,            \* task server: the tool call of each caller
    reply,              \* task server: the response the tool returned to each caller
    pending,            \* task server: the database call each tool call awaits, with its locals
    sp                  \* Executor::spawn: the call being followed and its child

app_vars ==
    <<running_executions, lock, child, rows, attempts, mon_pc, completed, mon_i, mon_new, h>>

norm_vars ==
    <<norm_pc, logs, worktree_path, line_no, entries, session_id, call_tool, call_input,
      action_type, concise, call_path, joined, relative>>

mcp_vars == <<projects, tasks, request, reply, pending>>

vars ==
    <<running_executions, lock, child, rows, attempts, mon_pc, completed, mon_i, mon_new, h,
      norm_pc, logs, worktree_path, line_no, entries, session_id, call_tool, call_input,
      action_type, concise, call_path, joined, relative,
      projects, tasks, request, reply, pending, sp>>

----------------------------------------------------------------------------
(* Bounds of the model *)

NumAttempts == 2
MaxExec == 3
NumHandlers == 2
NumCallers == 2

Attempts == 1..NumAttempts
ExecIds == 1..MaxExec
Handlers == 1..NumHandlers
Callers == 1..NumCallers

----------------------------------------------------------------------------
(* Types *)

\* enum ExecutionType
ExecutionType == {"SetupScript", "CodingAgent", "DevServer"}

\* execution process status
Terminal == {"Completed", "Failed", "Killed"}

\* mutant: SIGTERM is tried before SIGINT
StopSignals_TermFirst == <<"SIGTERM", "SIGINT", "SIGKILL">>

\* mutant: the loop has a fourth round
StopSignals_FourRounds == <<"SIGINT", "SIGTERM", "SIGTERM", "SIGKILL">>

\* for sig in [Signal::SIGINT, Signal::SIGTERM, Signal::SIGKILL]
StopSignals == <<"SIGINT", "SIGTERM", "SIGKILL">>

\* exit codes a child can exit with; Option<i64> is a set with at most one element
ExitCodes == {0, 1}

\* a process that was never spawned, and one that was just spawned
NoChild == [st |-> "none", code |-> {}]
Spawned == [st |-> "running", code |-> {}]

\* a handler between two requests
Idle == [pc |-> "idle", id |-> 0, sig |-> 0, ret |-> "none", sent |-> <<>>]

Max(S) == CHOOSE x \in S : \A y \in S : y <= x

\* every ordering of the elements of a finite set
Orderings(S) ==
    {q \in [1..Cardinality(S) -> S] : \A i, j \in 1..Cardinality(S) : i # j => q[i] # q[j]}

----------------------------------------------------------------------------
(* The child handle (command_group::AsyncGroupChild over an OS process) *)

\* child.try_wait() when the OS call does not fail: Some(status) once the
\* process has exited, None while it runs
HasExited(c) == c.st \in {"exited", "reaped"}

\* mutant: the success flag is inverted
Success_Inverted(c) == c.code # {0}

\* status.success(): exit code zero
Success(c) == c.code = {0}

\* the process after a successful try_wait/wait: reaped once it has exited
\* (its exit status now lives in the handle's caller, not in the OS)
Reap(c) == IF c.st = "exited" THEN [st |-> "reaped", code |-> {}] ELSE c

\* a signal delivered to the process group: a running process dies of it
\* (no exit code) when dies holds; SIGKILL cannot be ignored
Deliver(c, sig, dies) ==
    IF c.st = "running" /\ (sig = "SIGKILL" \/ dies)
    THEN [c EXCEPT !.st = "exited", !.code = {}]
    ELSE c

\* the handle is dropped without wait (kill_on_drop): a running process is
\* killed, and the runtime reaps the orphan
Drop(c) == [st |-> "reaped", code |-> {}]

----------------------------------------------------------------------------
(* Registry operations, app_state.rs *)

\* mutant: the scan does not count the dev servers
HasRunningExecution_DevServerUnseen(execs, attempt_id) ==
    \E id \in DOMAIN execs : /\ execs[id].task_attempt_id = attempt_id
                             /\ execs[id].execution_type # "DevServer"

\* has_running_execution
HasRunningExecution(execs, attempt_id) ==
    \E id \in DOMAIN execs : execs[id].task_attempt_id = attempt_id

\* add_running_execution: HashMap::insert
AddRunningExecution(execs, execution_id, execution) ==
    (execution_id :> execution) @@ execs

\* mutant: the tuple carries the execution id in the place of the attempt id
CompletedTuple_WrongAttempt(execs, ch, id, fault) ==
    IF fault
    THEN [id |-> id, task_attempt_id |-> id, success |-> FALSE, exit_code |-> {}]
    ELSE [id |-> id, task_attempt_id |-> id,
          success |-> Success(ch[id]), exit_code |-> ch[id].code]

\* mutant: the exit code is left out of the tuple
CompletedTuple_NoExitCode(execs, ch, id, fault) ==
    IF fault
    THEN [id |-> id, task_attempt_id |-> execs[id].task_attempt_id,
          success |-> FALSE, exit_code |-> {}]
    ELSE [id |-> id, task_attempt_id |-> execs[id].task_attempt_id,
          success |-> Success(ch[id]), exit_code |-> {}]

\* mutant: every collected entry is reported as a success
CompletedTuple_AlwaysSuccess(execs, ch, id, fault) ==
    IF fault
    THEN [id |-> id, task_attempt_id |-> execs[id].task_attempt_id,
          success |-> TRUE, exit_code |-> {}]
    ELSE [id |-> id, task_attempt_id |-> execs[id].task_attempt_id,
          success |-> TRUE, exit_code |-> ch[id].code]

\* one pushed tuple of get_running_executions_for_monitor for an entry whose
\* try_wait returned Ok(Some(status)) (fault = FALSE) or Err (fault = TRUE)
CompletedTuple(execs, ch, id, fault) ==
    IF fault
    THEN [id |-> id, task_attempt_id |-> execs[id].task_attempt_id,
          success |-> FALSE, exit_code |-> {}]
    ELSE [id |-> id, task_attempt_id |-> execs[id].task_attempt_id,
          success |-> Success(ch[id]), exit_code |-> ch[id].code]

\* mutant: only the entries whose try_wait faulted are collected
CollectedIds_FaultsOnly(execs, ch, faults) == {id \in DOMAIN execs : id \in faults}

\* the entries get_running_executions_for_monitor collects: those whose
\* try_wait faulted or reported an exit status
CollectedIds(execs, ch, faults) ==
    {id \in DOMAIN execs : id \in faults \/ HasExited(ch[id])}

\* mutant: the collected entries are left in the map
RemoveCompleted_Keep(execs, ids) == execs

\* "Remove completed executions from the map"
RemoveCompleted(execs, ids) ==
    [id \in DOMAIN execs \ ids |-> execs[id]]

\* the processes after the monitor's pass: reaped where try_wait gave a
\* status, dropped with their handle where try_wait faulted
AfterReap(execs, ch, faults) ==
    [id \in ExecIds |->
        IF id \in DOMAIN execs /\ id \in faults THEN Drop(ch[id])
        ELSE IF id \in DOMAIN execs THEN Reap(ch[id])
        ELSE ch[id]]

\* mutant: the lookup finds an entry for every id
StopLookup_Always(execs, execution_id) == TRUE

\* stop_running_execution_by_id: executions.get_mut(&execution_id)
StopLookup(execs, execution_id) == execution_id \in DOMAIN execs

\* mutant: the stopped entry is left in the map
StopRemove_Keep(execs, execution_id) == execs

\* stop_running_execution_by_id: "only NOW remove it"
StopRemove(execs, execution_id) ==
    [id \in DOMAIN execs \ {execution_id} |-> execs[id]]

----------------------------------------------------------------------------
(* execution_process rows *)

RowIds == 1..Len(rows)

NewRow(attempt_id, kind) ==
    [task_attempt_id |-> attempt_id, kind |-> kind, status |-> "Running", exit_code |-> {}]

\* rows of SetupScript executions still able to make the monitor start an agent
PendingSetups ==
    Cardinality({id \in RowIds : rows[id].kind = "SetupScript" /\ rows[id].status = "Running"})

\* room for n more rows, keeping one row for the agent of every pending setup
Room(n) == Len(rows) + PendingSetups + n <= MaxExec

\* the attempt's most recent Running execution
RunningRows(attempt_id) ==
    {id \in RowIds : rows[id].task_attempt_id = attempt_id /\ rows[id].status = "Running"}

----------------------------------------------------------------------------
(* The Claude log normalizer, executors/claude.rs                           *)
(*                                                                          *)
(* A string is kept as the sequence of its parts: a path as the pieces      *)
(* between its '/' separators ("/tmp/w" is <<"", "tmp", "w">>, "a/" is      *)
(* <<"a", "">>, the empty path is <<"">>), a log line as its blanks and its *)
(* text, any other string as one part.                                      *)

Blank == " "

RECURSIVE TrimStart(_)
TrimStart(s) == IF s # <<>> /\ s[1] = Blank THEN TrimStart(Tail(s)) ELSE s

RECURSIVE TrimEnd(_)
TrimEnd(s) == IF s # <<>> /\ s[Len(s)] = Blank THEN TrimEnd(SubSeq(s, 1, Len(s) - 1)) ELSE s

\* mutant: the line is not trimmed
Trim_Not(s) == s

\* line.trim()
Trim(s) == TrimEnd(TrimStart(s))

\* serde_json values, reduced to what the normalizer reads of them: a member
\* that is absent, one that is a string, one of another type; the same for
\* members read as arrays
NoStr == [t |-> "absent", s |-> <<>>]
NotStr == [t |-> "other", s |-> <<>>]
Str(s) == [t |-> "str", s |-> s]
NoArr == [t |-> "absent", items |-> <<>>]
NotArr == [t |-> "other", items |-> <<>>]
Arr(items) == [t |-> "array", items |-> items]

\* value.get(key).and_then(|v| v.as_str()): an Option, a set with at most one element
AsStr(v) == IF v.t = "str" THEN {v.s} ELSE {}

\* value.get(key).and_then(|v| v.as_array())
AsArray(v) == IF v.t = "array" THEN {v.items} ELSE {}

\* the input of a tool_use block (Value::Null when the block has none)
NoInput ==
    [file_path |-> NoStr, path |-> NoStr, command |-> NoStr, pattern |-> NoStr,
     url |-> NoStr, description |-> NoStr, prompt |-> NoStr, query |-> NoStr,
     todos |-> NoArr]

\* one element of message.content
Item(type, text, name, input) == [type |-> type, text |-> text, name |-> name, input |-> input]

\* one element of input.todos
Todo(text, status, priority) == [content |-> text, status |-> status, priority |-> priority]

\* a parsed log line
Doc(type, session, subtype, model, items) ==
    [type |-> type, session_id |-> session, subtype |-> subtype, model |-> model,
     content |-> items]

----------------------------------------------------------------------------
(* Paths: std::path on Unix, as make_path_relative uses it *)

\* Path::has_root: the string starts with '/'
HasRoot(path) == Len(path) >= 2 /\ path[1] = ""

\* the component the i-th piece of the path gives in Path::components(), as a
\* set: the root for the leading '/', nothing for an empty piece or for a "."
\* that is not the first piece of a relative path
Comp(path, i) ==
    IF i = 1 /\ HasRoot(path) THEN {"/"}
    ELSE IF path[i] = "" THEN {}
    ELSE IF path[i] = "." /\ i > 1 THEN {}
    ELSE {path[i]}

\* the pieces that give a component
Kept(path) == {i \in 1..Len(path) : Comp(path, i) # {}}

\* the i-th smallest element of a set of numbers
RECURSIVE Nth(_, _)
Nth(S, i) ==
    LET m == CHOOSE x \in S : \A y \in S : x <= y
    IN IF i = 1 THEN m ELSE Nth(S \ {m}, i - 1)

\* Path::components()
Components(path) ==
    [k \in 1..Cardinality(Kept(path)) |->
        CHOOSE c \in Comp(path, Nth(Kept(path), k)) : TRUE]

\* Path::starts_with: the components of base begin those of path
StartsWith(path, base) ==
    /\ Len(Components(base)) <= Len(Components(path))
    /\ SubSeq(Components(path), 1, Len(Components(base))) = Components(base)

\* what is left of the path after its first n components, as
\* Components::as_path gives it: from the next piece that is a component to
\* the last one that is, the empty path when none is left
Remainder(path, n) ==
    IF Cardinality(Kept(path)) <= n THEN <<"">>
    ELSE IF n = 0 /\ Kept(path) = {1} /\ HasRoot(path) THEN <<"", "">>
    ELSE SubSeq(path, Nth(Kept(path), n + 1), Nth(Kept(path), Cardinality(Kept(path))))

\* Path::strip_prefix: Ok(rest) or Err, a set with at most one element
StripPrefix(path, base) ==
    IF StartsWith(path, base) THEN {Remainder(path, Len(Components(base)))} ELSE {}

\* mutant: the leading components are cut off without being compared
MakePathRelative_Uncompared(path, worktree) ==
    IF ~HasRoot(path) THEN path
    ELSE Remainder(path, Len(Components(worktree)))

\* make_path_relative
MakePathRelative(path, worktree) ==
    IF ~HasRoot(path) THEN path
    ELSE IF StripPrefix(path, worktree) # {}
         THEN CHOOSE rest \in StripPrefix(path, worktree) : TRUE
         ELSE path

----------------------------------------------------------------------------
(* Tool calls: extract_action_type and generate_concise_content; the       *)
(* backquotes of the source's formats are written as single quotes         *)

\* a formatted string: the format and its arguments
Fmt(fmt, args) == [fmt |-> fmt, args |-> args]

\* an ActionType value: the variant and the string it carries
Action(tag, text) == [tag |-> tag, text |-> text]

\* the tool names of the model
ToolNames ==
    {"Read", "read", "READ", "Edit", "Write", "MultiEdit", "Bash", "Grep", "Glob",
     "WebFetch", "Task", "LS", "TodoWrite", "todoread", "codebase_search_agent",
     "NotebookEdit"}

\* mutant: the name is compared as it is written
ToLowercase_Not(name) == name

\* tool_name.to_lowercase()
ToLowercase(name) ==
    CASE name \in {"Read", "read", "READ"} -> "read"
      [] name = "Edit" -> "edit"
      [] name = "Write" -> "write"
      [] name = "MultiEdit" -> "multiedit"
      [] name = "Bash" -> "bash"
      [] name = "Grep" -> "grep"
      [] name = "Glob" -> "glob"
      [] name = "WebFetch" -> "webfetch"
      [] name = "Task" -> "task"
      [] name = "LS" -> "ls"
      [] name = "TodoWrite" -> "todowrite"
      [] name = "NotebookEdit" -> "notebookedit"
      [] name \in {"TODO", "Todo"} -> "todo"
      [] name = "InProgress" -> "inprogress"
      [] name = "IN-PROGRESS" -> "in-progress"
      [] name = "In_Progress" -> "in_progress"
      [] name = "InReview" -> "inreview"
      [] name = "In-Review" -> "in-review"
      [] name = "IN_REVIEW" -> "in_review"
      [] name \in {"Done", "DONE"} -> "done"
      [] name = "Completed" -> "completed"
      [] name = "CANCELLED" -> "cancelled"
      [] name = "Canceled" -> "canceled"
      [] name = "In Progress" -> "in progress"
      [] name = "Finished" -> "finished"
      [] OTHER -> name

\* the first of the members that is a string, if any
FirstStr(values) ==
    LET found == {i \in 1..Len(values) : AsStr(values[i]) # {}}
    IN IF found = {} THEN {}
       ELSE AsStr(values[CHOOSE i \in found : \A j \in found : i <= j])

\* one arm of the match: the variant with the string found, or Other with
\* the fixed description
ActionOr(tag, found, relativize, worktree, description) ==
    IF found = {} THEN Action("Other", Fmt(description, <<>>))
    ELSE LET v == CHOOSE x \in found : TRUE
         IN Action(tag, Fmt("{}", <<IF relativize THEN MakePathRelative(v, worktree) ELSE v>>))

\* extract_action_type
ExtractActionType(tool_name, input, worktree) ==
    LET n == ToLowercase(tool_name) IN
    CASE n = "read" ->
           ActionOr("FileRead", FirstStr(<<input.file_path>>), TRUE, worktree,
                    "File read operation")
      [] n \in {"edit", "write", "multiedit"} ->
           ActionOr("FileWrite", FirstStr(<<input.file_path, input.path>>), TRUE, worktree,
                    "File write operation")
      [] n = "bash" ->
           ActionOr("CommandRun", FirstStr(<<input.command>>), FALSE, worktree,
                    "Command execution")
      [] n = "grep" ->
           ActionOr("Search", FirstStr(<<input.pattern>>), FALSE, worktree,
                    "Search operation")
      [] n = "glob" ->
           IF AsStr(input.pattern) # {}
           THEN Action("Other", Fmt("Find files: {}", <<CHOOSE x \in AsStr(input.pattern) : TRUE>>))
           ELSE Action("Other", Fmt("File pattern search", <<>>))
      [] n = "webfetch" ->
           ActionOr("WebFetch", FirstStr(<<input.url>>), FALSE, worktree,
                    "Web fetch operation")
      [] n = "task" ->
           ActionOr("TaskCreate", FirstStr(<<input.description, input.prompt>>), FALSE, worktree,
                    "Task creation")
      [] OTHER -> Action("Other", Fmt("Tool: {}", <<<<tool_name>>>>))

\* mutant: the status "todo" has no glyph of its own
StatusEmoji_TodoUnknown(status) ==
    CASE status = <<"completed">> -> "done-glyph"
      [] status = <<"in_progress">> -> "progress-glyph"
      [] status = <<"pending">> -> "pending-glyph"
      [] OTHER -> "other-glyph"

\* the glyph of a todo status
StatusEmoji(status) ==
    CASE status = <<"completed">> -> "done-glyph"
      [] status = <<"in_progress">> -> "progress-glyph"
      [] status \in {<<"pending">>, <<"todo">>} -> "pending-glyph"
      [] OTHER -> "other-glyph"

\* the member as a string, or the default
StrOr(v, default) == IF AsStr(v) = {} THEN default ELSE CHOOSE x \in AsStr(v) : TRUE

\* the rendered lines of the todos that have a string content, in list order:
\* "<glyph> <content> (<priority>)" as its three parts
RECURSIVE TodoItems(_)
TodoItems(todos) ==
    IF todos = <<>> THEN <<>>
    ELSE LET todo == todos[1] IN
         (IF AsStr(todo.content) = {} THEN <<>>
          ELSE << <<StatusEmoji(StrOr(todo.status, <<"pending">>))>>
                  \o StrOr(todo.content, <<>>)
                  \o StrOr(todo.priority, <<"medium">>) >>)
         \o TodoItems(Tail(todos))

\* generate_concise_content for an action of the variant Other
OtherContent(tool_name, input, worktree) ==
    LET n == ToLowercase(tool_name) IN
    CASE n \in {"todoread", "todowrite"} ->
           IF AsArray(input.todos) # {} /\ TodoItems(input.todos.items) # <<>>
           THEN Fmt("TODO List:", TodoItems(input.todos.items))
           ELSE Fmt("Managing TODO list", <<>>)
      [] n = "ls" ->
           IF AsStr(input.path) = {} THEN Fmt("List directory", <<>>)
           ELSE LET relative_path == MakePathRelative(StrOr(input.path, <<>>), worktree)
                IN IF relative_path = <<"">> THEN Fmt("List directory", <<>>)
                   ELSE Fmt("List directory: '{}'", <<relative_path>>)
      [] n = "glob" ->
           IF AsStr(input.path) # {}
           THEN Fmt("Find files: '{}' in '{}'",
                    <<StrOr(input.pattern, <<"*">>),
                      MakePathRelative(StrOr(input.path, <<>>), worktree)>>)
           ELSE Fmt("Find files: '{}'", <<StrOr(input.pattern, <<"*">>)>>)
      [] n = "codebase_search_agent" ->
           IF AsStr(input.query) # {} THEN Fmt("Search: {}", <<StrOr(input.query, <<>>)>>)
           ELSE Fmt("Codebase search", <<>>)
      [] OTHER -> Fmt("{}", <<<<tool_name>>>>)

\* generate_concise_content
GenerateConciseContent(tool_name, input, action, worktree) ==
    CASE action.tag \in {"FileRead", "FileWrite", "CommandRun", "Search", "WebFetch"} ->
           Fmt("'{}'", action.text.args)
      [] action.tag = "TaskCreate" -> action.text
      [] OTHER -> OtherContent(tool_name, input, worktree)

----------------------------------------------------------------------------
(* normalize_logs *)

ReadMain ==
    Item(Str(<<"tool_use">>), NoStr, Str(<<"Read">>),
         [NoInput EXCEPT !.file_path = Str(<<"", "tmp", "w", "src", "main.rs">>)])

\* the JSON documents of the model: the text of the line and the value
\* serde_json::from_str gives for it
Docs ==
    ("42" :> Doc(NoStr, NoStr, NoStr, NoStr, NoArr))
    @@ ("{\"type\":\"result\",\"subtype\":\"success\",\"session_id\":\"s2\"}"
          :> Doc(Str(<<"result">>), Str(<<"s2">>), Str(<<"success">>), NoStr, NoArr))
    @@ ("{\"type\":\"result\"}" :> Doc(Str(<<"result">>), NoStr, NoStr, NoStr, NoArr))
    @@ ("{\"type\":\"unknown\",\"session_id\":\"s1\"}"
          :> Doc(Str(<<"unknown">>), Str(<<"s1">>), NoStr, NoStr, NoArr))
    @@ ("{\"type\":7,\"session_id\":7}" :> Doc(NotStr, NotStr, NoStr, NoStr, NoArr))
    @@ ("{\"type\":\"system\",\"subtype\":\"init\",\"model\":\"m\",\"session_id\":\"s1\"}"
          :> Doc(Str(<<"system">>), Str(<<"s1">>), Str(<<"init">>), Str(<<"m">>), NoArr))
    @@ ("{\"type\":\"system\",\"subtype\":\"init\"}"
          :> Doc(Str(<<"system">>), NoStr, Str(<<"init">>), NoStr, NoArr))
    @@ ("{\"type\":\"system\",\"subtype\":\"status\"}"
          :> Doc(Str(<<"system">>), NoStr, Str(<<"status">>), NoStr, NoArr))
    @@ ("{\"type\":\"assistant\",\"message\":{\"content\":[{\"type\":\"text\",\"text\":\"Hello\"},{\"type\":\"tool_use\",\"name\":\"Read\",\"input\":{\"file_path\":\"/tmp/w/src/main.rs\"}}]},\"session_id\":\"s2\"}"
          :> Doc(Str(<<"assistant">>), Str(<<"s2">>), NoStr, NoStr,
                 Arr(<<Item(Str(<<"text">>), Str(<<"Hello">>), NoStr, NoInput), ReadMain>>)))
    @@ ("{\"type\":\"assistant\",\"message\":{\"content\":\"hi\"}}"
          :> Doc(Str(<<"assistant">>), NoStr, NoStr, NoStr, NotArr))
    @@ ("{\"type\":\"user\",\"message\":{\"content\":[{\"type\":\"text\",\"text\":\"Hi\"},{\"type\":\"tool_result\"}]}}"
          :> Doc(Str(<<"user">>), NoStr, NoStr, NoStr,
                 Arr(<<Item(Str(<<"text">>), Str(<<"Hi">>), NoStr, NoInput),
                       Item(Str(<<"tool_result">>), NoStr, NoStr, NoInput)>>)))

\* the lines of the model: empty and blank ones, text that is not JSON, and
\* the documents, bare or between blanks
LogLines ==
    {<<>>, <<Blank>>, <<"oops">>, <<Blank, "oops", Blank>>, <<"not", Blank, "json">>}
    \cup {<<d>> : d \in DOMAIN Docs}
    \cup {<<Blank, d, Blank>> : d \in {"{\"type\":\"result\"}"}}

\* serde_json::from_str(trimmed): Ok(value) or Err, a set with at most one element
FromStr(trimmed) ==
    IF Len(trimmed) = 1 /\ trimmed[1] \in DOMAIN Docs THEN {Docs[trimmed[1]]} ELSE {}

\* a NormalizedEntry; the tool name and the action type are those of the
\* ToolUse entry type
Entry(type, tool, action, text, metadata) ==
    [timestamp |-> {}, entry_type |-> type, tool_name |-> tool, action_type |-> action,
     content |-> text, metadata |-> metadata]

\* the entry an element of an assistant message pushes, if any
AssistantEntry(item, worktree) ==
    IF AsStr(item.type) = {<<"text">>} /\ AsStr(item.text) # {}
    THEN <<Entry("AssistantMessage", {}, {}, Fmt("{}", <<StrOr(item.text, <<>>)>>), {item})>>
    ELSE IF AsStr(item.type) = {<<"tool_use">>} /\ AsStr(item.name) # {}
    THEN LET name == StrOr(item.name, <<>>)[1]
             action == ExtractActionType(name, item.input, worktree)
         IN <<Entry("ToolUse", {name}, {action},
                    GenerateConciseContent(name, item.input, action, worktree), {item})>>
    ELSE <<>>

\* the entry an element of a user message pushes, if any
UserEntry(item) ==
    IF AsStr(item.type) = {<<"text">>} /\ AsStr(item.text) # {}
    THEN <<Entry("UserMessage", {}, {}, Fmt("{}", <<StrOr(item.text, <<>>)>>), {item})>>
    ELSE <<>>

\* mutant: the elements of the content are taken last to first
RECURSIVE ItemEntries_Reversed(_, _, _)
ItemEntries_Reversed(msg_type, items, worktree) ==
    IF items = <<>> THEN <<>>
    ELSE ItemEntries_Reversed(msg_type, Tail(items), worktree)
         \o (IF msg_type = "assistant" THEN AssistantEntry(items[1], worktree)
             ELSE UserEntry(items[1]))

\* for content_item in content, for a message of the given type
RECURSIVE ItemEntries(_, _, _)
ItemEntries(msg_type, items, worktree) ==
    IF items = <<>> THEN <<>>
    ELSE (IF msg_type = "assistant" THEN AssistantEntry(items[1], worktree)
          ELSE UserEntry(items[1]))
         \o ItemEntries(msg_type, Tail(items), worktree)

\* the value of processed
Processed(json) == AsStr(json.type) \subseteq {<<"assistant">>, <<"user">>, <<"system">>}
                   /\ AsStr(json.type) # {}

\* the entries the match on the message type pushes
TypedEntries(json, worktree) ==
    IF AsStr(json.type) \in {{<<"assistant">>}, {<<"user">>}}
    THEN IF AsArray(json.content) = {} THEN <<>>
         ELSE ItemEntries(StrOr(json.type, <<>>)[1], json.content.items, worktree)
    ELSE IF AsStr(json.type) = {<<"system">>} /\ AsStr(json.subtype) = {<<"init">>}
    THEN <<Entry("SystemMessage", {}, {},
                 Fmt("System initialized with model: {}", <<StrOr(json.model, <<"unknown">>)>>),
                 {json})>>
    ELSE <<>>

\* mutant: a result line is reported like any other unrecognized line
Unprocessed_ResultToo(json, trimmed) ==
    IF Processed(json) THEN <<>>
    ELSE <<Entry("SystemMessage", {}, {}, Fmt("Unrecognized JSON: {}", <<trimmed>>), {json})>>

\* if !processed: nothing for a line of type "result", else the
\* unrecognized-JSON entry
Unprocessed(json, trimmed) ==
    IF Processed(json) \/ AsStr(json.type) = {<<"result">>} THEN <<>>
    ELSE <<Entry("SystemMessage", {}, {}, Fmt("Unrecognized JSON: {}", <<trimmed>>), {json})>>

\* mutant: a later session id replaces the one captured
SessionAfter_LastWins(session, json) ==
    IF AsStr(json.session_id) # {} THEN AsStr(json.session_id) ELSE session

\* if session_id.is_none() { if let Some(sess_id) = ... }
SessionAfter(session, json) ==
    IF session = {} THEN AsStr(json.session_id) ELSE session

\* one pass of the loop body over a line: the entries vector and the session
\* id after it
ProcessLine(acc, line, worktree) ==
    LET trimmed == Trim(line) IN
    IF trimmed = <<>> THEN acc
    ELSE IF FromStr(trimmed) = {}
    THEN [acc EXCEPT !.entries =
            Append(@, Entry("SystemMessage", {}, {}, Fmt("Raw output: {}", <<trimmed>>), {}))]
    ELSE LET json == CHOOSE v \in FromStr(trimmed) : TRUE
         IN [entries |-> acc.entries \o TypedEntries(json, worktree) \o Unprocessed(json, trimmed),
             session_id |-> SessionAfter(acc.session_id, json)]

\* normalize_logs as a function of its arguments: the entries and the
\* session id of the conversation it returns
RECURSIVE NormalizeFrom(_, _, _)
NormalizeFrom(acc, lines, worktree) ==
    IF lines = <<>> THEN acc
    ELSE NormalizeFrom(ProcessLine(acc, lines[1], worktree), Tail(lines), worktree)

NormalizeLogs(lines, worktree) ==
    NormalizeFrom([entries |-> <<>>, session_id |-> {}], lines, worktree)

\* no call of the normalizer is being followed
NormIdle ==
    /\ norm_pc = "off"
    /\ logs = <<>>
    /\ worktree_path = <<"">>
    /\ line_no = 0
    /\ entries = <<>>
    /\ session_id = {}
    /\ call_tool = ""
    /\ call_input = NoInput
    /\ action_type = {}
    /\ concise = {}
    /\ call_path = <<"">>
    /\ joined = {}
    /\ relative = {}

\* no tool call of the task server and no spawn call is followed
NoRequest == [tool |-> "none"]
NoSpawn == [pc |-> "off"]
NoReply == [kind |-> "none"]

\* a tool call that awaits no database call: not begun, or returned
NoPending == [pc |-> "entry"]

\* no caller has a tool call in flight
NoCalls ==
    /\ request = [c \in Callers |-> NoRequest]
    /\ reply = [c \in Callers |-> NoReply]
    /\ pending = [c \in Callers |-> NoPending]

McpIdle ==
    /\ projects = {}
    /\ tasks = {}
    /\ NoCalls
    /\ sp = NoSpawn

----------------------------------------------------------------------------
AppInit ==
    /\ running_executions = <<>>
    /\ lock = 0
    /\ child = [id \in ExecIds |-> NoChild]
    /\ rows = <<>>
    /\ attempts = [a \in Attempts |-> "absent"]
    /\ mon_pc = "sleep"
    /\ completed = <<>>
    /\ mon_i = 0
    /\ mon_new = 0
    /\ h = [p \in Handlers |-> Idle]

Init == AppInit /\ NormIdle /\ McpIdle

----------------------------------------------------------------------------
(* The environment: a running child exits on its own *)

ChildExit(id) ==
    /\ child[id].st = "running"
    /\ \E c \in ExitCodes : child' = [child EXCEPT ![id].st = "exited", ![id].code = {c}]
    /\ UNCHANGED <<running_executions, lock, rows, attempts, mon_pc, completed, mon_i, mon_new, h>>
    /\ UNCHANGED <<norm_vars, mcp_vars, sp>>

----------------------------------------------------------------------------
(* The execution monitor, specification section 4.4 *)

\* the stage that follows a successful execution of this kind
NextStage(kind) == IF kind = "SetupScript" THEN "CodingAgent" ELSE "DevServer"

\* mutant: the monitor's pass does not take the registry lock
MonReapWith_NoLock(faults) ==
    /\ mon_pc = "sleep"
    /\ LET ids == CollectedIds(running_executions, child, faults) IN
       \E order \in Orderings(ids) :
          /\ completed' = [i \in 1..Cardinality(ids) |->
                 CompletedTuple(running_executions, child, order[i], order[i] \in faults)]
          /\ running_executions' = RemoveCompleted(running_executions, ids)
          /\ child' = AfterReap(running_executions, child, faults)
          /\ mon_pc' = IF ids = {} THEN "sleep" ELSE "update"
          /\ mon_i' = IF ids = {} THEN 0 ELSE 1
    /\ UNCHANGED <<lock, rows, attempts, mon_new, h>>
    /\ UNCHANGED <<norm_vars, mcp_vars, sp>>

\* step 2 of the cycle: reap_terminated, the whole of
\* get_running_executions_for_monitor under the registry lock; faults are the
\* entries whose try_wait returns an OS error; the HashMap is iterated in an
\* arbitrary order
MonReapWith(faults) ==
    /\ mon_pc = "sleep"
    /\ lock = 0
    /\ LET ids == CollectedIds(running_executions, child, faults) IN
       \E order \in Orderings(ids) :
          /\ completed' = [i \in 1..Cardinality(ids) |->
                 CompletedTuple(running_executions, child, order[i], order[i] \in faults)]
          /\ running_executions' = RemoveCompleted(running_executions, ids)
          /\ child' = AfterReap(running_executions, child, faults)
          /\ mon_pc' = IF ids = {} THEN "sleep" ELSE "update"
          /\ mon_i' = IF ids = {} THEN 0 ELSE 1
    /\ UNCHANGED <<lock, rows, attempts, mon_new, h>>
    /\ UNCHANGED <<norm_vars, mcp_vars, sp>>

MonReap == \E faults \in SUBSET DOMAIN running_executions : MonReapWith(faults)

\* the monitor moves to the next reaped tuple, or sleeps when none is left
MonAdvance ==
    IF mon_i < Len(completed)
    THEN /\ mon_pc' = "update"
         /\ mon_i' = mon_i + 1
         /\ UNCHANGED completed
    ELSE /\ mon_pc' = "sleep"
         /\ mon_i' = 0
         /\ completed' = <<>>

\* the row update of step 3: Completed if success, else Failed, with the exit code
UpdateCompletion(t) ==
    [rows EXCEPT ![t.id].status = IF t.success THEN "Completed" ELSE "Failed",
                 ![t.id].exit_code = t.exit_code]

\* step 3 for one reaped tuple: update the row, mark the attempt failed on
\* failure, and persist the Running row of the stage that follows, if any
\* (the dev server is started per attempt configuration: dev)
MonUpdate ==
    /\ mon_pc = "update"
    /\ LET t == completed[mon_i]
           kind == rows[t.id].kind
       IN
       /\ attempts' = IF t.success THEN attempts
                      ELSE [attempts EXCEPT ![t.task_attempt_id] = "failed"]
       /\ \E dev \in BOOLEAN :
            IF t.success /\ (kind = "SetupScript" \/ (kind = "CodingAgent" /\ dev /\ Room(1)))
            THEN /\ rows' = Append(UpdateCompletion(t), NewRow(t.task_attempt_id, NextStage(kind)))
                 /\ mon_new' = Len(rows) + 1
                 /\ mon_pc' = "spawn"
                 /\ UNCHANGED <<completed, mon_i>>
            ELSE /\ rows' = UpdateCompletion(t)
                 /\ UNCHANGED mon_new
                 /\ MonAdvance
    /\ UNCHANGED <<running_executions, lock, child, h>>
    /\ UNCHANGED <<norm_vars, mcp_vars, sp>>

\* the monitor spawns the executor and registers the child, or the spawn
\* fails and the nascent row is marked Failed
MonSpawn ==
    /\ mon_pc = "spawn"
    /\ \/ /\ lock = 0
          /\ child' = [child EXCEPT ![mon_new] = Spawned]
          /\ running_executions' = AddRunningExecution(running_executions, mon_new,
                 [task_attempt_id |-> rows[mon_new].task_attempt_id,
                  execution_type |-> rows[mon_new].kind])
          /\ UNCHANGED rows
       \/ /\ rows' = [rows EXCEPT ![mon_new].status = "Failed"]
          /\ UNCHANGED <<running_executions, child>>
    /\ mon_new' = 0
    /\ MonAdvance
    /\ UNCHANGED <<lock, attempts, h>>
    /\ UNCHANGED <<norm_vars, mcp_vars, sp>>

Monitor == MonReap \/ MonUpdate \/ MonSpawn

----------------------------------------------------------------------------
(* Attempt-driven orchestration, specification section 4.5 *)

\* a request is served by the first handler that is free; none is served
\* before the server has started (axum::serve comes last in main)
Free(p) ==
    /\ mon_pc # "boot"
    /\ h[p].pc = "idle" /\ \A q \in Handlers : q < p => h[q].pc # "idle"

\* create-attempt: persist the attempt (identifiers are allocated in order)
\* and the Running row of its first stage
CreateAttempt(p, a, setup) ==
    /\ Free(p)
    /\ attempts[a] = "absent"
    /\ \A b \in Attempts : b < a => attempts[b] # "absent"
    /\ Room(IF setup THEN 2 ELSE 1)
    /\ attempts' = [attempts EXCEPT ![a] = "created"]
    /\ rows' = Append(rows, NewRow(a, IF setup THEN "SetupScript" ELSE "CodingAgent"))
    /\ h' = [h EXCEPT ![p] = [Idle EXCEPT !.pc = "spawn", !.id = Len(rows) + 1]]
    /\ UNCHANGED <<running_executions, lock, child, mon_pc, completed, mon_i, mon_new>>
    /\ UNCHANGED <<norm_vars, mcp_vars, sp>>

\* follow-up: a spawn request for an attempt with a finished agent run (whose
\* session it resumes); it is
\* rejected when has_running_execution(attempt) holds, else its Running row is
\* persisted
FollowUp(p, a) ==
    /\ Free(p)
    /\ \E id \in RowIds : /\ rows[id].task_attempt_id = a
                          /\ rows[id].kind = "CodingAgent"
                          /\ rows[id].status \in Terminal
                          /\ child[id].st # "none"
    /\ lock = 0
    /\ IF HasRunningExecution(running_executions, a)
       THEN UNCHANGED <<rows, h>>
       ELSE /\ Room(1)
            /\ rows' = Append(rows, NewRow(a, "CodingAgent"))
            /\ h' = [h EXCEPT ![p] = [Idle EXCEPT !.pc = "spawn", !.id = Len(rows) + 1]]
    /\ UNCHANGED <<running_executions, lock, child, attempts, mon_pc, completed, mon_i, mon_new>>
    /\ UNCHANGED <<norm_vars, mcp_vars, sp>>

\* the handler spawns the executor and registers the child, or the spawn
\* fails and the nascent row is marked Failed
HandlerSpawn(p) ==
    /\ h[p].pc = "spawn"
    /\ \/ /\ lock = 0
          /\ child' = [child EXCEPT ![h[p].id] = Spawned]
          /\ running_executions' = AddRunningExecution(running_executions, h[p].id,
                 [task_attempt_id |-> rows[h[p].id].task_attempt_id,
                  execution_type |-> rows[h[p].id].kind])
          /\ UNCHANGED rows
       \/ /\ rows' = [rows EXCEPT ![h[p].id].status = "Failed"]
          /\ UNCHANGED <<running_executions, child>>
    /\ h' = [h EXCEPT ![p] = Idle]
    /\ UNCHANGED <<lock, attempts, mon_pc, completed, mon_i, mon_new>>
    /\ UNCHANGED <<norm_vars, mcp_vars, sp>>

----------------------------------------------------------------------------
(* stop_running_execution_by_id, app_state.rs, on Unix. The lock is held    *)
(* from the lookup to the return; a step runs from one await to the next.  *)

\* return Err(..) or Ok(..) from inside the critical section; sig is the
\* signal sent on the way out, if any (0: none)
StopReturn(p, execution_id, ret, sig) ==
    /\ lock' = 0
    /\ h' = [h EXCEPT ![p] = [Idle EXCEPT !.pc = "stopped", !.id = execution_id,
                                         !.ret = ret, !.sig = sig]]

\* the next killpg(pgid, sig)? succeeded and the task sleeps 2 s
StopSignalled(p, sig, dies) ==
    /\ child' = [child EXCEPT ![h[p].id] = Deliver(@, StopSignals[sig], dies)]
    /\ h' = [h EXCEPT ![p].pc = "sleep", ![p].sig = sig,
                      ![p].sent = Append(@, StopSignals[sig])]

\* mutant: the entry is removed as soon as the kill is sent, and true is
\* returned without the wait
StopKill_Removes(p, c) ==
    /\ child' = [child EXCEPT ![h[p].id] = Deliver(c, "SIGKILL", TRUE)]
    /\ running_executions' = StopRemove(running_executions, h[p].id)
    /\ StopReturn(p, h[p].id, "true", Len(StopSignals))

\* the final fallback begins: exec.child.kill() sends a SIGKILL to the
\* process group whatever the state of the child c that try_wait left, and
\* the task awaits it with the lock held and the entry in the map
StopKill(p, c) ==
    /\ child' = [child EXCEPT ![h[p].id] = Deliver(c, "SIGKILL", TRUE)]
    /\ h' = [h EXCEPT ![p].pc = "kill"]
    /\ UNCHANGED <<lock, running_executions>>

\* the final fallback ends: child.wait().await.ok() has reaped the child c;
\* executions.remove(&execution_id); Ok(true)
StopFinal(p, c) ==
    /\ child' = [child EXCEPT ![h[p].id] = Reap(c)]
    /\ running_executions' = StopRemove(running_executions, h[p].id)
    /\ StopReturn(p, h[p].id, "true", Len(StopSignals))

\* lock().await; executions.get_mut: Ok(false) for an unknown id; else
\* getpgid(..)? and the first killpg(pgid, SIGINT)?
StopBegin(p, execution_id) ==
    /\ lock = 0
    /\ IF ~StopLookup(running_executions, execution_id)
       THEN /\ StopReturn(p, execution_id, "false", 0)
            /\ UNCHANGED child
       ELSE \/ /\ \E dies \in BOOLEAN :
                    /\ child' = [child EXCEPT ![execution_id] = Deliver(@, StopSignals[1], dies)]
                    /\ h' = [h EXCEPT ![p].pc = "sleep", ![p].id = execution_id, ![p].sig = 1,
                                      ![p].sent = <<StopSignals[1]>>]
               /\ lock' = p
            \/ /\ StopReturn(p, execution_id, "err", 0)
               /\ UNCHANGED child
    /\ UNCHANGED <<running_executions, rows, attempts, mon_pc, completed, mon_i, mon_new>>
    /\ UNCHANGED <<norm_vars, mcp_vars, sp>>

\* stop-attempt: resolve the attempt's most recent Running execution and
\* call stop on its id
StopAttempt(p, a) ==
    /\ Free(p)
    /\ RunningRows(a) # {}
    /\ StopBegin(p, Max(RunningRows(a)))

\* after the sleep: if exec.child.try_wait()?.is_some() { break }, then the
\* next killpg(pgid, sig)?, or, after the loop, the call of child.kill()
StopRound(p) ==
    /\ h[p].pc = "sleep"
    /\ lock = p
    /\ \/ /\ HasExited(child[h[p].id]) \/ h[p].sig = Len(StopSignals)
          /\ StopKill(p, Reap(child[h[p].id]))
       \/ /\ ~HasExited(child[h[p].id]) /\ h[p].sig < Len(StopSignals)
          /\ \E dies \in BOOLEAN : StopSignalled(p, h[p].sig + 1, dies)
          /\ UNCHANGED <<lock, running_executions>>
       \/ /\ StopReturn(p, h[p].id, "err", 0)
          /\ UNCHANGED <<child, running_executions>>
    /\ UNCHANGED <<rows, attempts, mon_pc, completed, mon_i, mon_new>>
    /\ UNCHANGED <<norm_vars, mcp_vars, sp>>

\* child.kill().await.ok() has returned, its result is dropped, and
\* child.wait() is called: the task awaits it, the lock still held
StopKilled(p) ==
    /\ h[p].pc = "kill"
    /\ lock = p
    /\ h' = [h EXCEPT ![p].pc = "wait"]
    /\ UNCHANGED <<running_executions, lock, child, rows, attempts, mon_pc, completed,
                   mon_i, mon_new>>
    /\ UNCHANGED <<norm_vars, mcp_vars, sp>>

\* child.wait().await.ok() has returned: the entry is removed and stop
\* returns Ok(true)
StopWaited(p) ==
    /\ h[p].pc = "wait"
    /\ lock = p
    /\ StopFinal(p, child[h[p].id])
    /\ UNCHANGED <<rows, attempts, mon_pc, completed, mon_i, mon_new>>
    /\ UNCHANGED <<norm_vars, mcp_vars, sp>>

\* stop-attempt, after stop returned: the row is marked Killed when stop
\* reported that it stopped the execution
StopAttemptFinish(p) ==
    /\ h[p].pc = "stopped"
    /\ rows' = IF h[p].ret = "true"
               THEN [rows EXCEPT ![h[p].id].status = "Killed"]
               ELSE rows
    /\ h' = [h EXCEPT ![p] = Idle]
    /\ UNCHANGED <<running_executions, lock, child, attempts, mon_pc, completed, mon_i, mon_new>>
    /\ UNCHANGED <<norm_vars, mcp_vars, sp>>

Handler(p) ==
    \/ \E a \in Attempts, setup \in BOOLEAN : CreateAttempt(p, a, setup)
    \/ \E a \in Attempts : FollowUp(p, a)
    \/ HandlerSpawn(p)
    \/ \E a \in Attempts : StopAttempt(p, a)
    \/ StopRound(p)
    \/ StopKilled(p)
    \/ StopWaited(p)
    \/ StopAttemptFinish(p)

----------------------------------------------------------------------------
Next ==
    \/ Monitor
    \/ \E p \in Handlers : Handler(p)
    \/ \E id \in ExecIds : ChildExit(id)

Spec == Init /\ [][Next]_vars

\* the task of a stop-attempt request that holds the lock, or has left stop,
\* goes on: it wakes from its sleep, its kill and its wait return, and it
\* finishes the request
StopRuns(p) == StopRound(p) \/ StopKilled(p) \/ StopWaited(p) \/ StopAttemptFinish(p)

\* The scheduling the runtime guarantees: the monitor task and the request
\* handlers are tokio tasks that keep being polled, and the tokio Mutex is
\* fair, so a task waiting for the lock gets it. A monitor pass in which no
\* try_wait faults reaps every child that has exited.
Scheduling ==
    /\ SF_vars(MonReapWith({}))
    /\ WF_vars(MonUpdate)
    /\ SF_vars(MonSpawn)
    /\ \A p \in Handlers :
         /\ SF_vars(HandlerSpawn(p))
         /\ WF_vars(StopRuns(p))

\* the program under its scheduling
LiveSpec == Spec /\ Scheduling

----------------------------------------------------------------------------
(* The normalizer's calls, followed one at a time *)

\* the most lines of a normalized log
MaxLines == 3

\* the logs of the model: every sequence of lines up to the bound
LogInputs == UNION {[1..n -> LogLines] : n \in 0..MaxLines}

\* the worktree paths of the normalized logs: "/tmp/w" and "w"
LogWorktrees == {<<"", "tmp", "w">>, <<"w">>}

\* the worktree paths of the model: "/tmp/w", "/tmp/w/", "w" and ""
Worktrees == {<<"", "tmp", "w">>, <<"", "tmp", "w", "">>, <<"w">>, <<"">>}

\* the relative paths of the model: "src/main.rs", "a", "./a", "a/", ".", "",
\* "../a", "a/./b" and "a//b"
RelativePaths ==
    {<<"src", "main.rs">>, <<"a">>, <<".", "a">>, <<"a", "">>, <<".">>, <<"">>,
     <<"..", "a">>, <<"a", ".", "b">>, <<"a", "", "b">>}

\* the absolute paths of the model: "/tmp/w/src/main.rs", "/tmp/w2/a",
\* "/tmp/w", "/tmp/a/", "/", "/tmp/w/./a" and "/tmp//w/a"
AbsolutePaths ==
    {<<"", "tmp", "w", "src", "main.rs">>, <<"", "tmp", "w2", "a">>, <<"", "tmp", "w">>,
     <<"", "tmp", "a", "">>, <<"", "">>, <<"", "tmp", "w", ".", "a">>,
     <<"", "tmp", "", "w", "a">>}

\* the tool inputs of the model
ToolInputs ==
    {NoInput,
     [NoInput EXCEPT !.file_path = Str(<<"", "tmp", "w", "src", "main.rs">>)],
     [NoInput EXCEPT !.file_path = Str(<<"", "tmp", "w2", "a">>)],
     [NoInput EXCEPT !.file_path = NotStr],
     [NoInput EXCEPT !.path = Str(<<"", "tmp", "w", "src">>)],
     [NoInput EXCEPT !.path = Str(<<"", "tmp", "w">>)],
     [NoInput EXCEPT !.file_path = Str(<<"src", "main.rs">>), !.path = Str(<<"a">>)],
     [NoInput EXCEPT !.command = Str(<<"ls -la">>)],
     [NoInput EXCEPT !.pattern = Str(<<"*.rs">>)],
     [NoInput EXCEPT !.pattern = Str(<<"*.rs">>), !.path = Str(<<"", "tmp", "w", "src">>)],
     [NoInput EXCEPT !.url = Str(<<"https://example.com">>)],
     [NoInput EXCEPT !.description = Str(<<"Find bugs">>)],
     [NoInput EXCEPT !.prompt = Str(<<"Look around">>)],
     [NoInput EXCEPT !.description = Str(<<"Find bugs">>), !.prompt = Str(<<"Look around">>)],
     [NoInput EXCEPT !.query = Str(<<"where is main">>)],
     [NoInput EXCEPT !.todos = NotArr],
     [NoInput EXCEPT !.todos = Arr(<<Todo(NoStr, Str(<<"pending">>), NoStr)>>)],
     [NoInput EXCEPT !.todos =
        Arr(<<Todo(Str(<<"Write tests">>), Str(<<"completed">>), Str(<<"high">>)),
              Todo(NoStr, NoStr, NoStr),
              Todo(Str(<<"Ship">>), NoStr, NoStr)>>)],
     [NoInput EXCEPT !.todos = Arr(<<>>)],
     [NoInput EXCEPT !.todos =
        Arr(<<Todo(Str(<<"Plan">>), Str(<<"in_progress">>), Str(<<"low">>)),
              Todo(Str(<<"Build">>), Str(<<"todo">>), NotStr),
              Todo(Str(<<"Review">>), Str(<<"blocked">>), Str(<<"high">>)),
              Todo(Str(<<"Ship">>), NotStr, Str(<<"low">>))>>)]}

\* format!("{}/{}", worktree, p) as the test of make_path_relative builds its
\* absolute path: the worktree path, a '/', then the relative path, so the
\* pieces of the two follow each other ("" gives "/src/main.rs" and
\* "/tmp/w/" gives "/tmp/w//src/main.rs")
Join(worktree, p) == worktree \o p

\* a call of normalize_logs begins
ScanInit ==
    /\ norm_pc = "scan"
    /\ logs \in LogInputs
    /\ worktree_path \in LogWorktrees
    /\ line_no = 0
    /\ entries = <<>>
    /\ session_id = {}
    /\ call_tool = ""
    /\ call_input = NoInput
    /\ action_type = {}
    /\ concise = {}
    /\ call_path = <<"">>
    /\ joined = {}
    /\ relative = {}

\* a tool call is about to be described
ToolInit ==
    /\ norm_pc = "tool"
    /\ logs = <<>>
    /\ worktree_path \in Worktrees
    /\ line_no = 0
    /\ entries = <<>>
    /\ session_id = {}
    /\ call_tool \in ToolNames
    /\ call_input \in ToolInputs
    /\ action_type = {}
    /\ concise = {}
    /\ call_path = <<"">>
    /\ joined = {}
    /\ relative = {}

\* a path is about to be made relative: one of the model's paths, or a
\* relative path written after the worktree path and a separator
PathInit ==
    /\ norm_pc = "path"
    /\ logs = <<>>
    /\ worktree_path \in Worktrees
    /\ line_no = 0
    /\ entries = <<>>
    /\ session_id = {}
    /\ call_tool = ""
    /\ call_input = NoInput
    /\ action_type = {}
    /\ concise = {}
    /\ \/ /\ joined = {}
          /\ call_path \in RelativePaths \cup AbsolutePaths
       \/ \E p \in RelativePaths :
            /\ joined = {p}
            /\ call_path = Join(worktree_path, p)
    /\ relative = {}

NormInit == AppInit /\ (ScanInit \/ ToolInit \/ PathInit) /\ McpIdle

\* one pass of the loop of normalize_logs
NormalizeLine ==
    /\ norm_pc = "scan"
    /\ line_no < Len(logs)
    /\ LET acc == ProcessLine([entries |-> entries, session_id |-> session_id],
                              logs[line_no + 1], worktree_path)
       IN /\ entries' = acc.entries
          /\ session_id' = acc.session_id
    /\ line_no' = line_no + 1
    /\ UNCHANGED <<norm_pc, logs, worktree_path, call_tool, call_input, action_type, concise,
                   call_path, joined, relative>>
    /\ UNCHANGED <<app_vars, mcp_vars, sp>>

\* the loop is over: Ok(NormalizedConversation { entries, session_id, .. })
NormalizeReturn ==
    /\ norm_pc = "scan"
    /\ line_no = Len(logs)
    /\ norm_pc' = "returned"
    /\ UNCHANGED <<logs, worktree_path, line_no, entries, session_id, call_tool, call_input,
                   action_type, concise, call_path, joined, relative>>
    /\ UNCHANGED <<app_vars, mcp_vars, sp>>

\* extract_action_type(tool_name, input, worktree_path)
ExtractAction ==
    /\ norm_pc = "tool"
    /\ action_type' = {ExtractActionType(call_tool, call_input, worktree_path)}
    /\ norm_pc' = "action"
    /\ UNCHANGED <<logs, worktree_path, line_no, entries, session_id, call_tool, call_input,
                   concise, call_path, joined, relative>>
    /\ UNCHANGED <<app_vars, mcp_vars, sp>>

\* generate_concise_content(tool_name, input, &action_type, worktree_path)
ConciseContent ==
    /\ norm_pc = "action"
    /\ \E action \in action_type :
         concise' = {GenerateConciseContent(call_tool, call_input, action, worktree_path)}
    /\ norm_pc' = "content"
    /\ UNCHANGED <<logs, worktree_path, line_no, entries, session_id, call_tool, call_input,
                   action_type, call_path, joined, relative>>
    /\ UNCHANGED <<app_vars, mcp_vars, sp>>

\* make_path_relative(path, worktree_path)
RelativizePath ==
    /\ norm_pc = "path"
    /\ relative' = {MakePathRelative(call_path, worktree_path)}
    /\ norm_pc' = "relative"
    /\ UNCHANGED <<logs, worktree_path, line_no, entries, session_id, call_tool, call_input,
                   action_type, concise, call_path, joined>>
    /\ UNCHANGED <<app_vars, mcp_vars, sp>>

NormNext ==
    \/ NormalizeLine
    \/ NormalizeReturn
    \/ ExtractAction
    \/ ConciseContent
    \/ RelativizePath

\* the normalizer on every input of the model
NormSpec == NormInit /\ [][NormNext]_vars


----------------------------------------------------------------------------
(* The task server, mcp/task_server.rs. A tool call is a request record, the *)
(* CallToolResult is a reply record; an Option is a set with at most one   *)
(* member. The Task and Project models are the tables tasks and projects.  *)

MaxTasks == 2

\* the Uuid values; more than the seeded tasks and the tasks the calls in
\* flight create, so that Uuid::new_v4 is fresh
Uuids == 1..(MaxTasks + NumCallers)

TaskStatus == {"Todo", "InProgress", "InReview", "Done", "Cancelled"}

Only(option) == CHOOSE x \in option : TRUE

\* mutant: the status string is compared as it was given
ParseTaskStatus_CaseSensitive(status_str) ==
    LET s == status_str IN
    CASE s = "todo" -> {"Todo"}
      [] s \in {"inprogress", "in-progress", "in_progress"} -> {"InProgress"}
      [] s \in {"inreview", "in-review", "in_review"} -> {"InReview"}
      [] s \in {"done", "completed"} -> {"Done"}
      [] s \in {"cancelled", "canceled"} -> {"Cancelled"}
      [] OTHER -> {}

ParseTaskStatus(status_str) ==
    LET s == ToLowercase(status_str) IN
    CASE s = "todo" -> {"Todo"}
      [] s \in {"inprogress", "in-progress", "in_progress"} -> {"InProgress"}
      [] s \in {"inreview", "in-review", "in_review"} -> {"InReview"}
      [] s \in {"done", "completed"} -> {"Done"}
      [] s \in {"cancelled", "canceled"} -> {"Cancelled"}
      [] OTHER -> {}

\* Uuid::parse_str on the id strings of the requests: the hyphenated and the
\* simple form of a Uuid parse to it, any other string is an error
ParseUuid(str) ==
    CASE str \in {"00000000-0000-0000-0000-000000000001",
                  "00000000000000000000000000000001"} -> {1}
      [] str = "00000000-0000-0000-0000-000000000002" -> {2}
      [] str = "00000000-0000-0000-0000-000000000003" -> {3}
      [] OTHER -> {}

\* CallToolResult::error with the "error" text of the response
ErrorReply(text) == [kind |-> "error", error |-> text]

\* CallToolResult::success with the response
SuccessReply(message, task_id) == [kind |-> "success", message |-> message, task_id |-> task_id]

\* Task::find_by_id_and_project_id, and the rows Task::exists counts
FindByIdAndProjectId(table, task_uuid, project_uuid) ==
    {t \in table : t.id = task_uuid /\ t.project_id = project_uuid}

\* the tool call of caller c returns this result
Return(c, result) ==
    /\ reply' = [reply EXCEPT ![c] = result]
    /\ pending' = [pending EXCEPT ![c] = NoPending]

\* the tool call of caller c has made its first database call and awaits the
\* second one, keeping these locals
Await(c, locals) ==
    /\ pending' = [pending EXCEPT ![c] = locals]
    /\ UNCHANGED reply

\* the tool call of caller c is at its entry
Called(c, tool) ==
    /\ request[c].tool = tool
    /\ reply[c] = NoReply
    /\ pending[c] = NoPending

\* update_task: the title, description and status handed to Task::update,
\* the supplied ones over those of the row that was read
NewValues(current_task, title, description, status_enum) ==
    [title |-> IF title # {} THEN Only(title) ELSE current_task.title,
     description |-> IF description # {} THEN description ELSE current_task.description,
     status |-> IF status_enum # {} THEN Only(status_enum) ELSE current_task.status]

\* Task::update: the row of this id in this project gets the three values
TaskUpdate(table, task_uuid, project_uuid, values) ==
    {IF t.id = task_uuid /\ t.project_id = project_uuid
     THEN [t EXCEPT !.title = values.title, !.description = values.description,
                    !.status = values.status]
     ELSE t : t \in table}

\* Task::delete: the rows of this id in this project are deleted
TaskDelete(table, task_uuid, project_uuid) ==
    table \ FindByIdAndProjectId(table, task_uuid, project_uuid)

\* create_task, to its first await: the project id is parsed and
\* Project::exists is asked; the call goes on only for a project that exists
CreateTask(c) ==
    /\ Called(c, "create_task")
    /\ LET project_uuid == ParseUuid(request[c].project_id) IN
       IF project_uuid = {}
       THEN Return(c, ErrorReply("Invalid project ID format. Must be a valid UUID."))
       ELSE \/ Return(c, ErrorReply("Failed to check project existence"))
            \/ /\ Only(project_uuid) \notin projects
               /\ Return(c, ErrorReply("Project not found"))
            \/ /\ Only(project_uuid) \in projects
               /\ Await(c, [pc |-> "create", project_uuid |-> Only(project_uuid)])
    /\ UNCHANGED <<projects, tasks, request>>
    /\ UNCHANGED <<app_vars, norm_vars, sp>>

\* create_task, from Task::create on: the task is inserted under a new Uuid,
\* or the insert fails
CreateTaskInsert(c) ==
    /\ pending[c].pc = "create"
    /\ \E task_id \in Uuids \ {t.id : t \in tasks} :
         \/ /\ tasks' = tasks \cup
                   {[id |-> task_id, project_id |-> pending[c].project_uuid,
                     title |-> request[c].title,
                     description |-> request[c].description,
                     status |-> "Todo"]}
            /\ Return(c, SuccessReply("Task created successfully", {task_id}))
         \/ /\ Return(c, ErrorReply("Failed to create task"))
            /\ UNCHANGED tasks
    /\ UNCHANGED <<projects, request>>
    /\ UNCHANGED <<app_vars, norm_vars, sp>>

\* mutant: the row is written before the status is validated
UpdateTask_WriteFirst(c) ==
    /\ Called(c, "update_task")
    /\ LET project_uuid == ParseUuid(request[c].project_id)
           task_uuid == ParseUuid(request[c].task_id)
           status_enum == IF request[c].status = {} THEN {}
                          ELSE ParseTaskStatus(Only(request[c].status))
       IN
       IF project_uuid = {}
       THEN /\ Return(c, ErrorReply("Invalid project ID format. Must be a valid UUID."))
            /\ UNCHANGED tasks
       ELSE IF task_uuid = {}
       THEN /\ Return(c, ErrorReply("Invalid task ID format. Must be a valid UUID."))
            /\ UNCHANGED tasks
       ELSE LET found == FindByIdAndProjectId(tasks, Only(task_uuid), Only(project_uuid)) IN
            IF found = {}
            THEN /\ Return(c, ErrorReply("Task not found in the specified project"))
                 /\ UNCHANGED tasks
            ELSE IF request[c].status # {} /\ status_enum = {}
            THEN /\ tasks' = TaskUpdate(tasks, Only(task_uuid), Only(project_uuid),
                                        NewValues(Only(found), request[c].title,
                                                  request[c].description, status_enum))
                 /\ Return(c, ErrorReply("Invalid status. Valid values: 'todo', 'inprogress', 'inreview', 'done', 'cancelled'"))
            ELSE /\ Await(c, [pc |-> "update", task_uuid |-> Only(task_uuid),
                              project_uuid |-> Only(project_uuid),
                              values |-> NewValues(Only(found), request[c].title,
                                                   request[c].description, status_enum)])
                 /\ UNCHANGED tasks
    /\ UNCHANGED <<projects, request>>
    /\ UNCHANGED <<app_vars, norm_vars, sp>>

\* update_task, to its second await: the ids and the status are parsed, the
\* task is read with Task::find_by_id_and_project_id, and the values to
\* write are made of the request and of the row that was read
UpdateTask(c) ==
    /\ Called(c, "update_task")
    /\ LET project_uuid == ParseUuid(request[c].project_id)
           task_uuid == ParseUuid(request[c].task_id)
           status_enum == IF request[c].status = {} THEN {}
                          ELSE ParseTaskStatus(Only(request[c].status))
       IN
       IF project_uuid = {}
       THEN /\ Return(c, ErrorReply("Invalid project ID format. Must be a valid UUID."))
            /\ UNCHANGED tasks
       ELSE IF task_uuid = {}
       THEN /\ Return(c, ErrorReply("Invalid task ID format. Must be a valid UUID."))
            /\ UNCHANGED tasks
       ELSE IF request[c].status # {} /\ status_enum = {}
       THEN /\ Return(c, ErrorReply("Invalid status. Valid values: 'todo', 'inprogress', 'inreview', 'done', 'cancelled'"))
            /\ UNCHANGED tasks
       ELSE LET found == FindByIdAndProjectId(tasks, Only(task_uuid), Only(project_uuid)) IN
            \/ /\ Return(c, ErrorReply("Failed to retrieve task"))
               /\ UNCHANGED tasks
            \/ /\ found = {}
               /\ Return(c, ErrorReply("Task not found in the specified project"))
               /\ UNCHANGED tasks
            \/ /\ found # {}
               /\ Await(c, [pc |-> "update", task_uuid |-> Only(task_uuid),
                            project_uuid |-> Only(project_uuid),
                            values |-> NewValues(Only(found), request[c].title,
                                                 request[c].description, status_enum)])
               /\ UNCHANGED tasks
    /\ UNCHANGED <<projects, request>>
    /\ UNCHANGED <<app_vars, norm_vars, sp>>

\* update_task, from Task::update on: the row the table has now under the
\* ids is rewritten with the values made before the await; the update fails
\* when the row is gone
UpdateTaskWrite(c) ==
    /\ pending[c].pc = "update"
    /\ LET task_uuid == pending[c].task_uuid
           project_uuid == pending[c].project_uuid
       IN
       \/ /\ FindByIdAndProjectId(tasks, task_uuid, project_uuid) # {}
          /\ tasks' = TaskUpdate(tasks, task_uuid, project_uuid, pending[c].values)
          /\ Return(c, SuccessReply("Task updated successfully", {task_uuid}))
       \/ /\ Return(c, ErrorReply("Failed to update task"))
          /\ UNCHANGED tasks
    /\ UNCHANGED <<projects, request>>
    /\ UNCHANGED <<app_vars, norm_vars, sp>>

\* delete_task, to its second await: the ids are parsed and Task::exists is
\* asked; the call goes on only for a task that exists in the project
DeleteTask(c) ==
    /\ Called(c, "delete_task")
    /\ LET project_uuid == ParseUuid(request[c].project_id)
           task_uuid == ParseUuid(request[c].task_id)
       IN
       IF project_uuid = {}
       THEN Return(c, ErrorReply("Invalid project ID format"))
       ELSE IF task_uuid = {}
       THEN Return(c, ErrorReply("Invalid task ID format"))
       ELSE LET found == FindByIdAndProjectId(tasks, Only(task_uuid), Only(project_uuid)) IN
            \/ Return(c, ErrorReply("Failed to check task existence"))
            \/ /\ found = {}
               /\ Return(c, ErrorReply("Task not found in the specified project"))
            \/ /\ found # {}
               /\ Await(c, [pc |-> "delete", task_uuid |-> Only(task_uuid),
                            project_uuid |-> Only(project_uuid)])
    /\ UNCHANGED <<projects, tasks, request>>
    /\ UNCHANGED <<app_vars, norm_vars, sp>>

\* delete_task, from Task::delete on: the rows the table has now under the
\* ids are deleted; the reply depends on rows_affected and names the task by
\* the id string of the request
DeleteTaskRemove(c) ==
    /\ pending[c].pc = "delete"
    /\ LET task_uuid == pending[c].task_uuid
           project_uuid == pending[c].project_uuid
           rows_affected ==
               Cardinality(FindByIdAndProjectId(tasks, task_uuid, project_uuid))
       IN
       \/ /\ tasks' = TaskDelete(tasks, task_uuid, project_uuid)
          /\ IF rows_affected > 0
             THEN Return(c, [kind |-> "success", message |-> "Task deleted successfully",
                             deleted_task_id |-> {request[c].task_id}])
             ELSE Return(c, ErrorReply("Task not found or already deleted"))
       \/ /\ Return(c, ErrorReply("Failed to delete task"))
          /\ UNCHANGED tasks
    /\ UNCHANGED <<projects, request>>
    /\ UNCHANGED <<app_vars, norm_vars, sp>>

\* task_status_to_string
TaskStatusToString(status) ==
    CASE status = "Todo" -> "todo"
      [] status = "InProgress" -> "in-progress"
      [] status = "InReview" -> "in-review"
      [] status = "Done" -> "done"
      [] status = "Cancelled" -> "cancelled"

\* mutant: the limit has no upper bound
Clamp_NoUpper(x, lo, hi) == IF x < lo THEN lo ELSE x

\* i32::clamp
Clamp(x, lo, hi) == IF x < lo THEN lo ELSE IF x > hi THEN hi ELSE x

\* Task::find_by_project_id_with_attempt_status: the rows of the project, as
\* a vector, here in the order of their ids
RECURSIVE InIdOrder(_, _)
InIdOrder(found, i) ==
    IF found = {} THEN <<>>
    ELSE LET here == {t \in found : t.id = i} IN
         (IF here = {} THEN <<>> ELSE <<Only(here)>>) \o InIdOrder(found \ here, i + 1)

FindByProjectId(table, project_uuid) ==
    InIdOrder({t \in table : t.project_id = project_uuid}, 1)

\* the first n elements of a vector: Iterator::take
Take(seq, n) == SubSeq(seq, 1, IF n < Len(seq) THEN n ELSE Len(seq))

\* list_tasks, to its second await: the project id and the status filter
\* are parsed, the project is read with Project::find_by_id, and the limit
\* is clamped
ListTasks(c) ==
    /\ Called(c, "list_tasks")
    /\ LET project_uuid == ParseUuid(request[c].project_id)
           status_filter == IF request[c].status = {} THEN {}
                            ELSE ParseTaskStatus(Only(request[c].status))
       IN
       IF project_uuid = {}
       THEN Return(c, ErrorReply("Invalid project ID format. Must be a valid UUID."))
       ELSE IF request[c].status # {} /\ status_filter = {}
       THEN Return(c, ErrorReply("Invalid status filter. Valid values: 'todo', 'inprogress', 'inreview', 'done', 'cancelled'"))
       ELSE \/ Return(c, ErrorReply("Failed to check project existence"))
            \/ /\ Only(project_uuid) \notin projects
               /\ Return(c, ErrorReply("Project not found"))
            \/ /\ Only(project_uuid) \in projects
               /\ Await(c, [pc |-> "list", project_uuid |-> Only(project_uuid),
                            status_filter |-> status_filter,
                            task_limit |-> Clamp(IF request[c].limit = {} THEN 50
                                                 ELSE Only(request[c].limit), 1, 200)])
    /\ UNCHANGED <<projects, tasks, request>>
    /\ UNCHANGED <<app_vars, norm_vars, sp>>

\* list_tasks, from Task::find_by_project_id_with_attempt_status on: the
\* tasks the project has now are filtered by status, cut at the limit and
\* summarized (a summary names its task by the Uuid)
ListTasksFetch(c) ==
    /\ pending[c].pc = "list"
    /\ LET status_filter == pending[c].status_filter
           task_limit == pending[c].task_limit
           Matches(task) == status_filter = {} \/ task.status \in status_filter
           filtered_tasks ==
               Take(SelectSeq(FindByProjectId(tasks, pending[c].project_uuid), Matches),
                    task_limit)
           task_summaries ==
               [i \in 1..Len(filtered_tasks) |->
                   [id |-> filtered_tasks[i].id,
                    title |-> filtered_tasks[i].title,
                    description |-> filtered_tasks[i].description,
                    status |-> TaskStatusToString(filtered_tasks[i].status)]]
       IN
       \/ Return(c, [kind |-> "success", tasks |-> task_summaries,
                     count |-> Len(task_summaries),
                     project_id |-> request[c].project_id,
                     applied_filters |-> [status |-> request[c].status,
                                          limit |-> task_limit]])
       \/ Return(c, ErrorReply("Failed to retrieve tasks"))
    /\ UNCHANGED <<projects, tasks, request>>
    /\ UNCHANGED <<app_vars, norm_vars, sp>>

\* the id strings, the status strings and the texts of the requests
IdStrings ==
    {"00000000-0000-0000-0000-000000000001", "00000000000000000000000000000001",
     "00000000-0000-0000-0000-000000000002", "00000000-0000-0000-0000-000000000003",
     "not-a-uuid"}

StatusStrings ==
    {"todo", "TODO", "Todo", "inprogress", "InProgress", "in-progress", "IN-PROGRESS",
     "in_progress", "In_Progress", "inreview", "InReview", "in-review", "In-Review",
     "in_review", "IN_REVIEW", "done", "Done", "DONE", "completed", "Completed",
     "cancelled", "CANCELLED", "canceled", "Canceled",
     "", "in progress", "In Progress", "finished", "Finished", "to-do", "complete",
     "in-progres", "todo ", "running"}

\* the limits of the list requests, of type i32
Limits == {-2147483647 - 1, -1, 0, 1, 2, 50, 51, 200, 201, 2147483647}

Requests ==
    [tool : {"create_task"}, project_id : IdStrings, title : {"t"},
     description : {{}, {"e"}}]
    \cup [tool : {"update_task"}, project_id : IdStrings, task_id : IdStrings,
          title : {{}, {"t"}}, description : {{}, {"e"}},
          status : {{}} \cup {{s} : s \in StatusStrings}]
    \cup [tool : {"delete_task"}, project_id : IdStrings, task_id : IdStrings]
    \cup [tool : {"list_tasks"}, project_id : IdStrings,
          status : {{}, {"todo"}, {"DONE"}, {"in-review"}, {"finished"}},
          limit : {{}} \cup {{n} : n \in Limits}]

\* the task tables the calls are served on: up to MaxTasks tasks
SeedTables ==
    UNION {{ {[id |-> i, project_id |-> f[i][1], title |-> "a",
               description |-> f[i][2], status |-> f[i][3]] : i \in S} :
             f \in [S -> {1, 2} \X {{}, {"d"}} \X {"Todo", "Done"}]} :
           S \in SUBSET (1..MaxTasks)}

\* a table of more tasks than the greatest limit: 201 tasks to do and three
\* done among them, in one project
LongTable ==
    {[id |-> i, project_id |-> 1, title |-> "a", description |-> {},
      status |-> IF i \in {1, 100, 204} THEN "Done" ELSE "Todo"] : i \in 1..204}

\* the calls that are served while another call is in flight: on task 1 of
\* project 1, an update of the title only, of the description only, of the
\* status only and of nothing, a delete, a create and a list
RacingRequests ==
    {r \in Requests :
        /\ r.project_id = "00000000-0000-0000-0000-000000000001"
        /\ r.tool \in {"update_task", "delete_task"} =>
              r.task_id = "00000000-0000-0000-0000-000000000001"
        /\ r.tool = "update_task" =>
              /\ r.status \in {{}, {"done"}}
              /\ Cardinality(r.title \cup r.description \cup r.status) <= 1
        /\ r.tool = "create_task" => r.description = {}
        /\ r.tool = "list_tasks" => r.status = {} /\ r.limit = {}}

\* the tables they are served on: empty, or task 1 in project 1
RacingTables == {T \in SeedTables : \A t \in T : t.id = 1 /\ t.project_id = 1}

\* one call served alone, on every table and of every request, or with the
\* long table, or calls of all the callers in flight together
McpInit ==
    /\ AppInit /\ NormIdle
    /\ projects = {1, 2}
    /\ \/ /\ tasks \in SeedTables
          /\ \E r \in Requests : request = [c \in Callers |-> IF c = 1 THEN r ELSE NoRequest]
       \/ /\ tasks = LongTable
          /\ \E r \in {q \in Requests : q.tool = "list_tasks"} :
                request = [c \in Callers |-> IF c = 1 THEN r ELSE NoRequest]
       \/ /\ tasks \in RacingTables
          /\ request \in [Callers -> RacingRequests]
    /\ reply = [c \in Callers |-> NoReply]
    /\ pending = [c \in Callers |-> NoPending]
    /\ sp = NoSpawn

McpNext ==
    \/ \E c \in Callers : ListTasks(c)
    \/ \E c \in Callers : ListTasksFetch(c)
    \/ \E c \in Callers : CreateTask(c)
    \/ \E c \in Callers : CreateTaskInsert(c)
    \/ \E c \in Callers : UpdateTask(c)
    \/ \E c \in Callers : UpdateTaskWrite(c)
    \/ \E c \in Callers : DeleteTask(c)
    \/ \E c \in Callers : DeleteTaskRemove(c)

McpSpec == McpInit /\ [][McpNext]_vars

----------------------------------------------------------------------------
(* Executor::spawn of ClaudeExecutor and ClaudeFollowupExecutor,            *)
(* executors/claude.rs. A step runs from one await to the next; a text is   *)
(* the sequence of its pieces.                                              *)

\* Uuid as Display writes it: 32 lower-case hexadecimal digits in five
\* groups, here of the ids 1 to 15
UuidString(uuid) ==
    LET hex == <<"1", "2", "3", "4", "5", "6", "7", "8", "9", "a", "b", "c", "d", "e", "f">>
    IN "00000000-0000-0000-0000-00000000000" \o hex[uuid]

\* the prompt of a new task: the two format! strings
Prompt(task) ==
    IF task.description # {}
    THEN <<"project_id: ", UuidString(task.project_id), "\n            \nTask title: ",
           task.title, "\nTask description: ", Only(task.description)>>
    ELSE <<"project_id: ", UuidString(task.project_id), "\n            \nTask title: ",
           task.title>>

ClaudeCommand ==
    "npx -y @anthropic-ai/claude-code@latest -p --dangerously-skip-permissions --verbose --output-format=stream-json"

\* the child: not spawned
NoProcess == [st |-> "none", group |-> FALSE, command |-> <<>>, stdin |-> "none", input |-> <<>>]

\* return Err(e): the child, if any, is dropped with the frame
SpawnErr(e) ==
    sp' = [sp EXCEPT !.pc = "returned", !.ret = e,
                     !.child.st = IF @ = "running" THEN "dropped" ELSE @]

\* ClaudeExecutor: Task::find_by_id(pool, task_id).await?.ok_or(TaskNotFound)?
\* and the prompt
FindById ==
    /\ sp.pc = "called" /\ sp.executor = "claude"
    /\ LET found == {t \in tasks : t.id = sp.task_id} IN
       \/ SpawnErr("DatabaseError")
       \/ /\ found = {}
          /\ SpawnErr("TaskNotFound")
       \/ /\ found # {}
          /\ sp' = [sp EXCEPT !.pc = "command", !.prompt = Prompt(Only(found))]
    /\ UNCHANGED <<app_vars, norm_vars, mcp_vars>>

\* command.group_spawn(), the child in a new process group with piped stdin;
\* ClaudeFollowupExecutor comes here at once, its task id is not read
GroupSpawn ==
    /\ \/ sp.pc = "command"
       \/ sp.pc = "called" /\ sp.executor = "followup"
    /\ \/ sp' = [sp EXCEPT !.pc = "write",
                           !.child = [st |-> "running", group |-> TRUE,
                                      command |-> IF sp.executor = "claude"
                                                  THEN <<ClaudeCommand>>
                                                  ELSE <<ClaudeCommand, " --resume=", sp.session_id>>,
                                      stdin |-> "open", input |-> <<>>]]
       \/ SpawnErr("SpawnFailed")
    /\ UNCHANGED <<app_vars, norm_vars, mcp_vars>>

\* stdin.write_all(prompt.as_bytes()).await, or an error after a part of it
WriteAll ==
    /\ sp.pc = "write"
    /\ \/ sp' = [sp EXCEPT !.pc = "shutdown", !.child.input = sp.prompt]
       \/ \E n \in 0..(Len(sp.prompt) - 1) :
             sp' = [sp EXCEPT !.pc = "returned", !.ret = "SpawnFailed",
                              !.child.st = "dropped",
                              !.child.input = SubSeq(sp.prompt, 1, n)]
    /\ UNCHANGED <<app_vars, norm_vars, mcp_vars>>

\* mutant: the child is returned with its stdin left open
Shutdown_Skipped ==
    /\ sp.pc = "shutdown"
    /\ sp' = [sp EXCEPT !.pc = "returned", !.ret = "Ok"]
    /\ UNCHANGED <<app_vars, norm_vars, mcp_vars>>

\* stdin.shutdown().await, then Ok(child)
Shutdown ==
    /\ sp.pc = "shutdown"
    /\ \/ sp' = [sp EXCEPT !.pc = "returned", !.ret = "Ok", !.child.stdin = "closed"]
       \/ SpawnErr("SpawnFailed")
    /\ UNCHANGED <<app_vars, norm_vars, mcp_vars>>

\* the spawn calls: of a new task and of a follow-up, for each task id
SpawnCalls ==
    {[pc |-> "called", executor |-> "claude", task_id |-> id, session_id |-> "",
      prompt |-> <<>>, child |-> NoProcess, ret |-> "none"] : id \in Uuids}
    \cup {[pc |-> "called", executor |-> "followup", task_id |-> id, session_id |-> "s1",
           prompt |-> <<"go on">>, child |-> NoProcess, ret |-> "none"] : id \in Uuids}

SpawnInit ==
    /\ AppInit /\ NormIdle
    /\ projects = {1, 2}
    /\ tasks \in SeedTables
    /\ NoCalls
    /\ sp \in SpawnCalls

SpawnNext ==
    \/ FindById
    \/ GroupSpawn
    \/ WriteAll
    \/ Shutdown

SpawnSpec == SpawnInit /\ [][SpawnNext]_vars

----------------------------------------------------------------------------
(* Restart of the server, specification section 3: the registry is memory  *)
(* only, the rows are persisted                                             *)

\* the server process ends, at any moment: main serves until axum::serve
\* returns or the process is terminated and calls no stop on the way out.
\* The registry, the tasks of the handlers and of the monitor are lost; the
\* rows and the attempts are in the database. When the runtime is torn down
\* the child handles are dropped (kill_on_drop); when the process is
\* terminated nothing is dropped and a running child, in a process group of
\* its own (group_spawn), runs on
ServerExit ==
    /\ mon_pc # "boot"
    /\ running_executions' = <<>>
    /\ lock' = 0
    /\ \E dropped \in BOOLEAN :
          child' = [id \in ExecIds |->
                       IF ~dropped /\ child[id].st = "running" THEN child[id] ELSE NoChild]
    /\ mon_pc' = "boot"
    /\ completed' = <<>>
    /\ mon_i' = 0
    /\ mon_new' = 0
    /\ h' = [p \in Handlers |-> Idle]
    /\ UNCHANGED <<rows, attempts>>
    /\ UNCHANGED <<norm_vars, mcp_vars, sp>>

\* startup: AppState::new builds an empty registry and main spawns the
\* monitor; no row of the database is read or written on the way
Startup ==
    /\ mon_pc = "boot"
    /\ running_executions' = <<>>
    /\ mon_pc' = "sleep"
    /\ UNCHANGED <<lock, child, rows, attempts, completed, mon_i, mon_new, h>>
    /\ UNCHANGED <<norm_vars, mcp_vars, sp>>

RestartNext ==
    \/ Monitor
    \/ \E p \in Handlers : Handler(p)
    \/ \E id \in ExecIds : ChildExit(id)
    \/ ServerExit
    \/ Startup

RestartSpec == Init /\ [][RestartNext]_vars

----------------------------------------------------------------------------
(* A panic inside an iteration of the monitor. main starts the monitor with *)
(* tokio::spawn and drops the JoinHandle: nothing awaits, supervises or     *)
(* restarts the task                                                        *)

\* the monitor panics while it handles the tuples of a pass (a row update or
\* a follow-up spawn): the panic unwinds out of the future main spawned, the
\* runtime ends that task and its locals are dropped; the server goes on
MonPanic ==
    /\ mon_pc \in {"update", "spawn"}
    /\ mon_pc' = "exited"
    /\ completed' = <<>>
    /\ mon_i' = 0
    /\ mon_new' = 0
    /\ UNCHANGED <<running_executions, lock, child, rows, attempts, h>>
    /\ UNCHANGED <<norm_vars, mcp_vars, sp>>

FaultNext ==
    \/ Monitor
    \/ \E p \in Handlers : Handler(p)
    \/ \E id \in ExecIds : ChildExit(id)
    \/ MonPanic

\* the program under its scheduling, with panics in the monitor
FaultSpec == Init /\ [][FaultNext]_vars /\ Scheduling

----------------------------------------------------------------------------
(* Claims *)

\* C1: the status of an execution_process row starts as Running and changes
\* at most once, to Completed, Failed or Killed; a terminal row is never
\* written again, whatever the interleaving of spawns, monitor cycles and
\* stop-attempt calls.
C1_StatusMonotonic ==
    [][/\ Len(rows') >= Len(rows)
       /\ \A id \in RowIds :
            /\ rows[id].status \in Terminal => rows'[id] = rows[id]
            /\ rows'[id].status # rows[id].status => rows'[id].status \in Terminal
       /\ \A id \in (1..Len(rows')) \ RowIds : rows'[id].status = "Running"]_vars

\* C1 witness: the monitor has completed one row and a stop-attempt has
\* killed another.
C1_Witness ==
    \E i, j \in RowIds : rows[i].status = "Killed" /\ rows[j].status = "Completed"

\* C2 (as claimed): given that the monitor keeps cycling, every row that is
\* Running reaches a terminal status: no row stays Running for ever.
C2_RunningLeadsToTerminal ==
    \A id \in ExecIds : []<>(id \in RowIds => rows[id].status \in Terminal)

\* C2 (amended): given that the monitor keeps cycling, a row stays Running
\* for ever only if its child runs for ever (never exits and is never
\* stopped); every other row reaches a terminal status, and no terminal row
\* returns to Running.
C2_RunningLeadsToTerminalIfExit ==
    /\ \A id \in ExecIds :
         \/ []<>(id \in RowIds => rows[id].status \in Terminal)
         \/ <>[](child[id].st = "running")
    /\ [][\A id \in RowIds : rows[id].status \in Terminal => rows'[id].status # "Running"]_vars

\* C2 witness: the monitor has reaped a child that exited and written the
\* terminal status of its row.
C2_Witness ==
    \E id \in RowIds : rows[id].status \in {"Completed", "Failed"} /\ rows[id].exit_code # {}

\* the execution a stop call that starts in this step is called with
StopCalled(p) == h[p].pc = "idle" /\ h'[p].pc \in {"sleep", "stopped"}

\* the positions of a stop call that holds the lock: asleep after a signal,
\* awaiting child.kill(), awaiting child.wait()
Stopping == {"sleep", "kill", "wait"}

\* C3 (as claimed): every stop call ends either with true, the entry removed
\* and the child reaped (the id was registered), or with false and nothing
\* changed (the id was not registered, as after a first call).
C3_StopTrueThenFalse ==
    [][\A p \in Handlers :
         /\ (StopCalled(p) /\ h'[p].pc = "stopped") =>
              /\ h'[p].id \notin DOMAIN running_executions
              /\ h'[p].ret = "false"
              /\ UNCHANGED <<running_executions, child>>
         /\ (h[p].pc \in Stopping /\ h'[p].pc = "stopped") =>
              /\ h'[p].ret = "true"
              /\ h[p].id \notin DOMAIN running_executions'
              /\ child'[h[p].id].st = "reaped"]_vars

\* C4: stop of an id that is not in the registry returns false, sends no
\* signal and leaves the registry unchanged.
C4_StopUnknownId ==
    [][\A p \in Handlers :
         (StopCalled(p) /\ h'[p].id \notin DOMAIN running_executions) =>
            /\ h'[p].pc = "stopped"
            /\ h'[p].ret = "false"
            /\ h'[p].sent = <<>>
            /\ UNCHANGED <<running_executions, child, lock>>]_vars

\* C4 witness: a stop call has returned false for an id that is not registered.
C4_Witness ==
    \E p \in Handlers :
        h[p].pc = "stopped" /\ h[p].ret = "false" /\ h[p].id \notin DOMAIN running_executions

\* C5: whenever the registry lock is free, no entry of the map has a child
\* that was already reaped.
C5_NoReapedEntry ==
    lock = 0 => \A id \in DOMAIN running_executions : child[id].st # "reaped"

\* C5 witness: a child has been reaped while other entries remain in the map.
C5_Witness ==
    /\ lock = 0
    /\ running_executions # <<>>
    /\ \E id \in ExecIds : child[id].st = "reaped"

\* C6 (as claimed): the registry never holds two coding-agent entries for
\* the same attempt.
C6_NoCompetingAgents ==
    \A i, j \in DOMAIN running_executions :
        (/\ i # j
         /\ running_executions[i].execution_type = "CodingAgent"
         /\ running_executions[j].execution_type = "CodingAgent")
        => running_executions[i].task_attempt_id # running_executions[j].task_attempt_id

\* the stage before this one in an attempt
PrevStage(kind) == IF kind = "DevServer" THEN "CodingAgent" ELSE "SetupScript"

\* an earlier row of the attempt, of this kind, is Completed
CompletedBefore(rs, id, attempt_id, kind) ==
    \E j \in 1..(id - 1) :
        /\ rs[j].task_attempt_id = attempt_id
        /\ rs[j].kind = kind
        /\ rs[j].status = "Completed"

\* C7: the monitor starts a CodingAgent only for an attempt whose SetupScript
\* row is Completed and a DevServer only for an attempt with a Completed
\* CodingAgent row; no stage exists whose predecessor is Running, Failed or
\* Killed.
C7_StageSequencing ==
    [][/\ (mon_pc = "update" /\ mon_pc' = "spawn") =>
            LET new == rows'[mon_new'] IN
            /\ new.kind \in {"CodingAgent", "DevServer"}
            /\ CompletedBefore(rows', mon_new', new.task_attempt_id, PrevStage(new.kind))
       /\ \A id \in 1..Len(rows') :
            /\ rows'[id].kind = "DevServer" =>
                 CompletedBefore(rows', id, rows'[id].task_attempt_id, "CodingAgent")
            /\ (/\ rows'[id].kind = "CodingAgent"
                /\ \E j \in 1..Len(rows') : /\ rows'[j].task_attempt_id = rows'[id].task_attempt_id
                                            /\ rows'[j].kind = "SetupScript")
               => CompletedBefore(rows', id, rows'[id].task_attempt_id, "SetupScript")]_vars

\* C7 witness: an attempt went through all three stages.
C7_Witness ==
    \E i, j, k \in RowIds :
        /\ rows[i].kind = "SetupScript" /\ rows[j].kind = "CodingAgent" /\ rows[k].kind = "DevServer"
        /\ rows[i].task_attempt_id = rows[j].task_attempt_id
        /\ rows[j].task_attempt_id = rows[k].task_attempt_id

\* the monitor ends the handling of the reaped tuple of a SetupScript that
\* exited with code 0
SetupHandled ==
    /\ mon_pc \in {"update", "spawn"}
    /\ mon_pc' = "sleep" \/ mon_i' # mon_i
    /\ rows[completed[mon_i].id].kind = "SetupScript"
    /\ completed[mon_i].exit_code = {0}

\* the CodingAgent row the monitor created is for the attempt of the reaped setup
AgentRowFor(t, id) ==
    /\ rows'[id].kind = "CodingAgent"
    /\ rows'[id].task_attempt_id = rows'[t.id].task_attempt_id

\* C8 (as claimed): when the monitor has handled a SetupScript that exited
\* with code 0, its row is Completed and a CodingAgent row for the same
\* attempt is Running with its child registered.
C8_SetupThenAgent ==
    [][SetupHandled =>
         /\ mon_pc = "spawn"
         /\ rows'[completed[mon_i].id].status = "Completed"
         /\ AgentRowFor(completed[mon_i], mon_new)
         /\ rows'[mon_new].status = "Running"
         /\ mon_new \in DOMAIN running_executions'
         /\ running_executions'[mon_new].task_attempt_id = rows'[mon_new].task_attempt_id]_vars

\* C8 (amended): ... unless the spawn of the agent failed, in which case the
\* CodingAgent row is Failed and nothing is registered for it.
C8_SetupThenAgentOrSpawnFailed ==
    [][SetupHandled =>
         /\ mon_pc = "spawn"
         /\ rows'[completed[mon_i].id].status = "Completed"
         /\ AgentRowFor(completed[mon_i], mon_new)
         /\ \/ /\ rows'[mon_new].status = "Running"
               /\ mon_new \in DOMAIN running_executions'
               /\ running_executions'[mon_new].task_attempt_id = rows'[mon_new].task_attempt_id
               /\ child'[mon_new].st = "running"
            \/ /\ rows'[mon_new].status = "Failed"
               /\ mon_new \notin DOMAIN running_executions'
               /\ child'[mon_new].st = "none"]_vars

\* C8 witness: a setup is Completed and the agent of its attempt is Running
\* and registered.
C8_Witness ==
    \E i, j \in RowIds :
        /\ rows[i].kind = "SetupScript" /\ rows[i].status = "Completed"
        /\ rows[j].kind = "CodingAgent" /\ rows[j].status = "Running"
        /\ rows[i].task_attempt_id = rows[j].task_attempt_id
        /\ j \in DOMAIN running_executions

\* C9: a reaped execution that failed (non-zero exit or reap fault) gets the
\* row status Failed, never Completed; its attempt is marked failed; the
\* monitor adds no row when it handles a failed tuple; an attempt whose
\* SetupScript row is Failed has no CodingAgent row.
C9_FailureStopsStages ==
    [][/\ \A id \in 1..Len(rows') :
            /\ rows'[id].status = "Completed" => rows'[id].exit_code = {0}
            /\ (rows'[id].status = "Failed" /\ child'[id].st # "none")
                  => attempts'[rows'[id].task_attempt_id] = "failed"
            /\ (rows'[id].kind = "SetupScript" /\ rows'[id].status = "Failed")
                  => \A j \in 1..Len(rows') :
                        rows'[j].task_attempt_id = rows'[id].task_attempt_id
                           => rows'[j].kind # "CodingAgent"
       /\ (mon_pc = "update" /\ ~completed[mon_i].success /\ <<mon_pc, mon_i>>' # <<mon_pc, mon_i>>)
            => /\ Len(rows') = Len(rows)
               /\ rows'[completed[mon_i].id].status = "Failed"
               /\ mon_pc' # "spawn"]_vars

\* C9 witness: a SetupScript exited with a non-zero code, its row is Failed
\* and its attempt is marked failed.
C9_Witness ==
    \E id \in RowIds :
        /\ rows[id].kind = "SetupScript"
        /\ rows[id].status = "Failed"
        /\ rows[id].exit_code = {1}
        /\ attempts[rows[id].task_attempt_id] = "failed"

\* a step of the execution monitor
MonitorStep == <<mon_pc, mon_i>>' # <<mon_pc, mon_i>>

\* the rows whose status this step changes to a terminal one
TerminalWrites == {id \in RowIds : rows'[id].status # rows[id].status /\ rows'[id].status \in Terminal}

\* the executions the monitor has reaped and not yet handled
InMonitorHands == {completed[i].id : i \in {j \in 1..Len(completed) : j >= mon_i}}

\* no row is set to Running after its creation
OnlySpawnsWriteRunning ==
    \A id \in RowIds : rows'[id].status # rows[id].status => rows'[id].status # "Running"

\* C10 (as claimed): only the monitor ever writes a terminal status to a row,
\* and a row is Running only from its creation by a spawn.
C10_MonitorOnlyTerminalWriter ==
    [][/\ TerminalWrites # {} => MonitorStep
       /\ OnlySpawnsWriteRunning]_vars

\* C10 (amended): only the monitor writes Completed, and only the monitor
\* writes the row of an execution it reaped; the other terminal writes are
\* Killed, by a stop-attempt to the row of the execution its stop call
\* stopped, and Failed, by a spawn that failed to its own nascent row; a row
\* is Running only from its creation by a spawn.
C10_TerminalWriters ==
    [][/\ \A id \in TerminalWrites :
            \/ /\ MonitorStep
               /\ \/ mon_pc = "update" /\ id = completed[mon_i].id
                  \/ mon_pc = "spawn" /\ id = mon_new /\ rows'[id].status = "Failed"
            \/ /\ ~MonitorStep
               /\ id \notin InMonitorHands
               /\ rows'[id].status # "Completed"
               /\ \E p \in Handlers :
                    /\ h[p].id = id
                    /\ h'[p].pc = "idle"
                    /\ \/ /\ h[p].pc = "stopped" /\ h[p].ret = "true"
                          /\ rows'[id].status = "Killed"
                       \/ /\ h[p].pc = "spawn"
                          /\ rows'[id].status = "Failed"
       /\ OnlySpawnsWriteRunning]_vars

\* C10 witness: rows were written Completed by the monitor, Killed by a
\* stop-attempt and Failed by a spawn that failed.
C10_Witness ==
    \E i, j, k \in RowIds :
        /\ rows[i].status = "Completed"
        /\ rows[j].status = "Killed"
        /\ rows[k].status = "Failed" /\ child[k].st = "none"

\* C11: every registry entry has a row with its id, and its task_attempt_id
\* is that of the row; every tuple the monitor's pass reported carries the
\* attempt id of the row of its execution.
C11_RegistryMatchesRows ==
    /\ \A id \in DOMAIN running_executions :
         /\ id \in RowIds
         /\ running_executions[id].task_attempt_id = rows[id].task_attempt_id
    /\ \A i \in 1..Len(completed) :
         /\ completed[i].id \in RowIds
         /\ completed[i].task_attempt_id = rows[completed[i].id].task_attempt_id

\* C11 witness: an execution of the second attempt was reported while
\* another execution is registered.
C11_Witness ==
    /\ running_executions # <<>>
    /\ \E i \in 1..Len(completed) : completed[i].task_attempt_id = 2 /\ completed[i].id # 2

\* C12: a pass of reap_terminated returns exactly one tuple for each entry
\* whose child has exited or whose try_wait faulted and none for the others;
\* the reported entries are removed, the others stay as they were, their
\* children still running.
C12_ReapExactlyTheTerminated ==
    [][\A faults \in SUBSET DOMAIN running_executions :
         MonReapWith(faults) =>
            LET due == {id \in DOMAIN running_executions :
                           id \in faults \/ child[id].st = "exited"}
                got == IF mon_pc' = "update" THEN completed' ELSE <<>>
            IN
            /\ Len(got) = Cardinality(due)
            /\ {got[i].id : i \in 1..Len(got)} = due
            /\ DOMAIN running_executions' = DOMAIN running_executions \ due
            /\ \A id \in DOMAIN running_executions' :
                 /\ running_executions'[id] = running_executions[id]
                 /\ child[id].st = "running"
                 /\ child'[id] = child[id]]_vars

\* C12 witness: a pass reported one execution and left another, still
\* running, in the map.
C12_Witness ==
    /\ mon_pc = "update" /\ mon_i = 1
    /\ \E id \in DOMAIN running_executions : child[id].st = "running"

\* the order of escalation the specification gives
EscalationOrder == <<"SIGINT", "SIGTERM", "SIGKILL">>

\* the signals the stop call of p has sent before this step
SentBefore(p) == IF h[p].pc = "sleep" THEN h[p].sent ELSE <<>>

\* the signal the stop call of p sends to the process group in this step
SignalSent(p) ==
    IF h'[p].pc = "sleep" /\ h'[p].sent # SentBefore(p)
    THEN {h'[p].sent[Len(h'[p].sent)]}
    ELSE IF h[p].pc = "sleep" /\ h'[p].pc = "kill"
         THEN {"SIGKILL"}
         ELSE {}

\* C13 (as claimed): every signal a stop call sends is the next one of
\* SIGINT, SIGTERM, SIGKILL, never one out of order or a second time, and a
\* signal after the first is sent only to a child that has not exited.
C13_EscalationOnly ==
    [][\A p \in Handlers : \A s \in SignalSent(p) :
         /\ Len(SentBefore(p)) < Len(EscalationOrder)
         /\ s = EscalationOrder[Len(SentBefore(p)) + 1]
         /\ SentBefore(p) # <<>> => ~HasExited(child[h[p].id])]_vars

\* C13 (amended): the signals of the escalation loop are SIGINT, SIGTERM,
\* SIGKILL in this order, each at most once, a later one only to a child that
\* had not exited after the preceding wait; after the loop the call always
\* sends one more SIGKILL to the process group (kill), whether the child has
\* exited or not.
C13_EscalationThenKill ==
    [][\A p \in Handlers : \A s \in SignalSent(p) :
         \/ /\ h'[p].pc = "sleep"
            /\ Len(SentBefore(p)) < Len(EscalationOrder)
            /\ s = EscalationOrder[Len(SentBefore(p)) + 1]
            /\ h'[p].sent = Append(SentBefore(p), s)
            /\ SentBefore(p) # <<>> => ~HasExited(child[h[p].id])
         \/ /\ h'[p].pc = "kill"
            /\ s = "SIGKILL"
            /\ HasExited(child[h[p].id]) \/ h[p].sent = EscalationOrder]_vars

\* C13 witness: a stop call has escalated to SIGKILL.
C13_Witness ==
    \E p \in Handlers : h[p].pc = "sleep" /\ h[p].sent = EscalationOrder

\* C14 (as claimed): a stop call whose child ignored SIGINT and SIGTERM, so
\* that SIGKILL was sent, makes no further round: it returns true with the
\* child reaped and the entry removed, and stop-attempt marks the row Killed.
C14_StubbornChildKilled ==
    [][\A p \in Handlers :
         /\ (h[p].pc = "sleep" /\ h[p].sig = Len(StopSignals) /\ h'[p] # h[p]) =>
              h'[p].pc = "kill"
         /\ (h[p].pc \in Stopping /\ h[p].sig = Len(StopSignals) /\ h'[p].pc = "stopped") =>
              /\ h'[p].ret = "true"
              /\ h[p].id \notin DOMAIN running_executions'
              /\ child'[h[p].id].st = "reaped"
         /\ (h[p].pc = "stopped" /\ h[p].ret = "true" /\ h'[p] # h[p]) =>
              rows'[h[p].id].status = "Killed"]_vars

\* a pass of reap_terminated that reports something
ReapPass == mon_pc = "sleep" /\ completed' # completed

\* the handlers inside stop's critical section
InStop == {p \in Handlers : h[p].pc \in Stopping}

\* C15: the registry operations exclude each other: at most one stop is in
\* progress, it holds the lock across its sleeps, and while it does no
\* insert, no has_running check, no reap pass and no other stop runs; the
\* only change of the map is the removal of the entry being stopped; a reap
\* pass starts and ends with the lock free.
C15_MutualExclusion ==
    /\ [](/\ Cardinality(InStop) <= 1
          /\ \A p \in InStop : lock = p
          /\ lock # 0 => lock \in InStop)
    /\ [][/\ lock # 0 =>
               /\ DOMAIN running_executions' \subseteq DOMAIN running_executions
               /\ DOMAIN running_executions \ DOMAIN running_executions' \subseteq {h[lock].id}
               /\ \A id \in DOMAIN running_executions' :
                    running_executions'[id] = running_executions[id]
               /\ ~ReapPass
               /\ \A p \in Handlers : ~StopCalled(p)
               /\ \A p \in Handlers :
                    ~(h[p].pc = "idle" /\ h'[p].pc = "spawn" /\ attempts' = attempts)
          /\ ReapPass => lock = 0 /\ lock' = 0]_vars

\* C15 witness: a stop sleeps between two signals, holding the lock, while
\* another handler waits to insert the child it is about to register.
C15_Witness ==
    \E p, q \in Handlers : lock = p /\ h[p].pc = "sleep" /\ h[p].sig = 2 /\ h[q].pc = "spawn"

----------------------------------------------------------------------------
\* a line of blanks only, or empty
BlankLine(line) == \A k \in 1..Len(line) : line[k] = Blank

\* C16: normalize_logs is total: whatever the log, the loop has a line to
\* take or the call returns, and it returns Ok once every line is taken; for
\* a log whose lines are all empty or blank the conversation returned has no
\* entry and no session id.
C16_TotalAndEmptyOnBlank ==
    /\ norm_pc = "scan" => line_no < Len(logs) \/ line_no = Len(logs)
    /\ norm_pc = "returned" =>
         /\ line_no = Len(logs)
         /\ [entries |-> entries, session_id |-> session_id] = NormalizeLogs(logs, worktree_path)
    /\ (norm_pc = "returned" /\ \A i \in 1..Len(logs) : BlankLine(logs[i]))
         => entries = <<>> /\ session_id = {}

\* a log of two or more empty and blank lines has been normalized
C16_Witness ==
    /\ norm_pc = "returned"
    /\ Len(logs) >= 2
    /\ \A i \in 1..Len(logs) : BlankLine(logs[i])
    /\ \E i \in 1..Len(logs) : logs[i] # <<>>
    /\ entries = <<>>

----------------------------------------------------------------------------
\* the documents whose type is "result"
ResultDocs ==
    {"{\"type\":\"result\",\"subtype\":\"success\",\"session_id\":\"s2\"}",
     "{\"type\":\"result\"}"}

\* a line that holds a result document, bare or between blanks
ResultLine(line) == \E k \in 1..Len(line) : line[k] \in ResultDocs

\* C17: a line of type "result" gives no entry wherever it stands, and does
\* not change the entries of the other lines: the entries returned are those
\* of the log without its result lines.
C17_ResultLinesSkipped ==
    norm_pc = "returned" =>
        entries = NormalizeLogs(SelectSeq(logs, LAMBDA l : ~ResultLine(l)), worktree_path).entries

\* a log with a result line between a line of unknown type and a line that
\* gives another entry
C17_Witness ==
    /\ norm_pc = "returned"
    /\ Len(logs) = 3
    /\ ~ResultLine(logs[1]) /\ ResultLine(logs[2]) /\ ~ResultLine(logs[3])
    /\ Len(entries) = 2
    /\ entries[1].content.fmt = "Unrecognized JSON: {}"
    /\ entries[2].content.fmt # "Unrecognized JSON: {}"

----------------------------------------------------------------------------
\* the string session_id a line carries, if it is JSON and has one
SessionOf(line) ==
    IF FromStr(Trim(line)) = {} THEN {}
    ELSE AsStr((CHOOSE v \in FromStr(Trim(line)) : TRUE).session_id)

\* the lines consumed so far that carry a session id
Carriers == {i \in 1..line_no : SessionOf(logs[i]) # {}}

\* C18: the session id is that of the first line that carries a string
\* session_id, it is absent exactly when no line carries one, and once
\* captured it is never replaced.
C18_SessionFirstWins ==
    /\ [](norm_pc \in {"scan", "returned"} =>
            session_id = IF Carriers = {} THEN {}
                         ELSE SessionOf(logs[CHOOSE i \in Carriers : \A j \in Carriers : i <= j]))
    /\ [][session_id # {} => session_id' = session_id]_vars

\* two lines carrying different session ids have been read, and the session
\* id is the first one
C18_Witness ==
    /\ norm_pc = "returned"
    /\ \E i, j \in Carriers :
         /\ i < j
         /\ SessionOf(logs[i]) # SessionOf(logs[j])
         /\ session_id = SessionOf(logs[i])

----------------------------------------------------------------------------
\* a relative path that is empty, or begins and ends with a component other
\* than "."
Plain(p) ==
    /\ ~HasRoot(p)
    /\ p = <<"">> \/ (p[1] \notin {"", "."} /\ p[Len(p)] \notin {"", "."})

\* what the claim says of paths outside the worktree and of relative paths:
\* the result is the input
UnchangedOutside ==
    /\ (HasRoot(call_path) /\ ~StartsWith(call_path, worktree_path)) => relative = {call_path}
    /\ ~HasRoot(call_path) => relative = {call_path}

\* C19, as claimed: for every relative path p and every worktree w the path
\* join(w, p) is made relative to p again; an absolute path not under w and
\* an already relative path are returned unchanged.
C19_RoundTrip ==
    norm_pc = "relative" =>
        /\ \A p \in joined : relative = {p}
        /\ UnchangedOutside

\* C19, amended: the round trip holds for an absolute worktree w and a
\* relative path p that is empty or begins and ends with a component other
\* than "."; an absolute path not under w and an already relative path are
\* returned unchanged.
C19_RoundTripOfPlainPaths ==
    norm_pc = "relative" =>
        /\ \A p \in joined : (HasRoot(worktree_path) /\ Plain(p)) => relative = {p}
        /\ UnchangedOutside

\* "src/main.rs" joined to an absolute worktree has been made relative again
C19_Witness ==
    /\ norm_pc = "relative"
    /\ HasRoot(worktree_path)
    /\ joined = {<<"src", "main.rs">>}
    /\ call_path # <<"src", "main.rs">>
    /\ relative = joined

----------------------------------------------------------------------------
\* the table of the claim, by the tool names of the model
TableVariant(name) ==
    CASE name \in {"Read", "read", "READ"} -> "FileRead"
      [] name \in {"Edit", "Write", "MultiEdit"} -> "FileWrite"
      [] name = "Bash" -> "CommandRun"
      [] name = "Grep" -> "Search"
      [] name = "WebFetch" -> "WebFetch"
      [] name = "Task" -> "TaskCreate"
      [] OTHER -> "Other"

\* the input has a string in a member the variant is built from
HasPayload(variant, inp) ==
    CASE variant = "FileRead" -> AsStr(inp.file_path) # {}
      [] variant = "FileWrite" -> AsStr(inp.file_path) # {} \/ AsStr(inp.path) # {}
      [] variant = "CommandRun" -> AsStr(inp.command) # {}
      [] variant = "Search" -> AsStr(inp.pattern) # {}
      [] variant = "WebFetch" -> AsStr(inp.url) # {}
      [] variant = "TaskCreate" -> AsStr(inp.description) # {} \/ AsStr(inp.prompt) # {}
      [] OTHER -> TRUE

\* C20, as claimed: for all tool names and inputs the action type is the
\* variant the table gives for the tool name, compared case-insensitively.
C20_TableOnly ==
    norm_pc \in {"action", "content"} =>
        \A a \in action_type : a.tag = TableVariant(call_tool)

\* C20, amended: the action type is the variant the table gives for the tool
\* name when the input has a string in a member that variant is built from,
\* and Other when it has none.
C20_TableWhenInputHasPayload ==
    norm_pc \in {"action", "content"} =>
        \A a \in action_type :
            a.tag = IF HasPayload(TableVariant(call_tool), call_input)
                    THEN TableVariant(call_tool) ELSE "Other"

\* "READ" with a file_path has been classified as FileRead, with the path
\* made relative
C20_Witness ==
    /\ norm_pc = "action"
    /\ call_tool = "READ"
    /\ call_input.file_path = Str(<<"", "tmp", "w", "src", "main.rs">>)
    /\ worktree_path = <<"", "tmp", "w">>
    /\ action_type = {Action("FileRead", Fmt("{}", << <<"src", "main.rs">> >>))}

----------------------------------------------------------------------------
\* the line the loop is about to take
NextLine == logs[line_no + 1]

\* the documents the claim leaves out: those of type assistant, user or
\* result, and those of type system with subtype init
KnownDocs ==
    {d \in DOMAIN Docs :
        \/ Docs[d].type \in {Str(<<"assistant">>), Str(<<"user">>), Str(<<"result">>)}
        \/ Docs[d].type = Str(<<"system">>) /\ Docs[d].subtype = Str(<<"init">>)}

\* the text of a line between its leading and its trailing blanks
Text(line) ==
    LET solid == {k \in 1..Len(line) : line[k] # Blank}
    IN IF solid = {} THEN <<>>
       ELSE SubSeq(line, CHOOSE k \in solid : \A j \in solid : k <= j,
                         CHOOSE k \in solid : \A j \in solid : j <= k)

\* the line holds one of the given documents, bare or between blanks
Holds(line, docs) == Len(Text(line)) = 1 /\ Text(line)[1] \in docs

\* C29: every JSON line that is not of type assistant, user or result, nor of
\* type system with subtype init, adds exactly one SystemMessage entry whose
\* content is "Unrecognized JSON: " followed by the trimmed line; system
\* lines with another subtype are among them.
C29_OtherJsonUnrecognized ==
    [][(NormalizeLine /\ Holds(NextLine, DOMAIN Docs \ KnownDocs)) =>
          /\ Len(entries') = Len(entries) + 1
          /\ SubSeq(entries', 1, Len(entries)) = entries
          /\ entries'[Len(entries')].entry_type = "SystemMessage"
          /\ entries'[Len(entries')].content = Fmt("Unrecognized JSON: {}", <<Text(NextLine)>>)]_vars

----------------------------------------------------------------------------
\* C30: each line is trimmed; a line that is empty after trimming adds no
\* entry, and a non-empty line that is not valid JSON adds exactly one
\* SystemMessage entry with content "Raw output: " followed by the trimmed
\* line and no metadata; neither changes the session id.
C30_BlankSkippedRawReported ==
    [][NormalizeLine =>
          /\ Text(NextLine) = <<>> => entries' = entries /\ session_id' = session_id
          /\ (Text(NextLine) # <<>> /\ ~Holds(NextLine, DOMAIN Docs)) =>
                /\ entries' = Append(entries,
                      [timestamp |-> {}, entry_type |-> "SystemMessage", tool_name |-> {},
                       action_type |-> {}, metadata |-> {},
                       content |-> Fmt("Raw output: {}", <<Text(NextLine)>>)])
                /\ session_id' = session_id]_vars

\* a log with a blank line, text between blanks and text with a blank inside
\* has been normalized after a line that gave the session id
C30_Witness ==
    /\ norm_pc = "returned"
    /\ Len(logs) = 3
    /\ session_id # {}
    /\ \E i \in 2..3 : logs[i] # <<>> /\ Text(logs[i]) = <<>>
    /\ \E i \in 2..3 : Text(logs[i]) # logs[i] /\ Text(logs[i]) # <<>>
    /\ Len(entries) >= 1
    /\ entries[Len(entries)].content.fmt = "Raw output: {}"

----------------------------------------------------------------------------
\* C24, as claimed: the exit code of a row is absent while the row is
\* Running and present whenever it is Completed or Failed.
C24_ExitCodeIffExited ==
    \A id \in RowIds :
        /\ rows[id].status = "Running" => rows[id].exit_code = {}
        /\ rows[id].status \in {"Completed", "Failed"} => rows[id].exit_code # {}

\* C24, amended: the exit code is absent while the row is Running and is
\* present, and zero, whenever it is Completed; a Killed row has none, and a
\* Failed row has either a non-zero exit code or none.
C24_ExitCodeWhenCompleted ==
    \A id \in RowIds :
        /\ rows[id].status = "Running" => rows[id].exit_code = {}
        /\ rows[id].status = "Completed" => rows[id].exit_code = {0}
        /\ rows[id].status = "Killed" => rows[id].exit_code = {}
        /\ rows[id].status = "Failed" => 0 \notin rows[id].exit_code

\* a Completed row with its exit code, a Failed row with one and a Failed
\* row without
C24_Witness ==
    \E i, j, k \in RowIds :
        /\ rows[i].status = "Completed" /\ rows[i].exit_code = {0}
        /\ rows[j].status = "Failed" /\ rows[j].exit_code = {1}
        /\ rows[k].status = "Failed" /\ rows[k].exit_code = {}

----------------------------------------------------------------------------
\* C25: a reaped tuple of a child that exited carries success exactly when
\* the exit status is zero, and the child's exit code; the tuple of a child
\* whose try_wait faulted carries success = false and no exit code, and its
\* entry is removed; the pass goes on to the remaining entries, so every
\* faulted and every exited entry is reported.
C25_ReapedTupleValues ==
    [][\A faults \in SUBSET DOMAIN running_executions :
         MonReapWith(faults) =>
            LET got == IF mon_pc' = "update" THEN completed' ELSE <<>> IN
            /\ \A i \in 1..Len(got) :
                 IF got[i].id \in faults
                 THEN /\ got[i].success = FALSE
                      /\ got[i].exit_code = {}
                      /\ got[i].id \notin DOMAIN running_executions'
                 ELSE /\ child[got[i].id].st = "exited"
                      /\ got[i].success = (child[got[i].id].code = {0})
                      /\ got[i].exit_code = child[got[i].id].code
            /\ \A id \in DOMAIN running_executions :
                 (id \in faults \/ child[id].st = "exited") =>
                    \E i \in 1..Len(got) : got[i].id = id]_vars

\* one pass reported a child that exited with zero, and one that exited with
\* a non-zero code or whose try_wait faulted
C25_Witness ==
    /\ mon_pc = "update"
    /\ Len(completed) >= 2
    /\ \E i, j \in 1..Len(completed) :
         /\ completed[i].success /\ completed[i].exit_code = {0}
         /\ ~completed[j].success /\ completed[j].exit_code # {0}

----------------------------------------------------------------------------
\* C27: the monitor never exits: whatever happens inside an iteration, an
\* error or a panic, it is always at one of the steps of its cycle and it
\* comes back to its reap again and again.
C27_MonitorNeverExits ==
    /\ [](mon_pc \in {"sleep", "update", "spawn"})
    /\ []<>(mon_pc = "sleep")

----------------------------------------------------------------------------
C38_ShutdownDrain ==
    /\ [](mon_pc = "boot" => running_executions = <<>>)
    /\ [][mon_pc = "boot" /\ mon_pc' # "boot" => running_executions' = <<>>]_vars
    /\ [][mon_pc # "boot" /\ mon_pc' = "boot" =>
            \A id \in DOMAIN running_executions : child'[id].st # "running"]_vars

----------------------------------------------------------------------------
\* the statuses the claimed table gives, by the strings of each row
StatusTable ==
    <<[status |-> "Todo", strings |-> {"todo", "TODO", "Todo"}],
      [status |-> "InProgress",
       strings |-> {"inprogress", "InProgress", "in-progress", "IN-PROGRESS",
                    "in_progress", "In_Progress"}],
      [status |-> "InReview",
       strings |-> {"inreview", "InReview", "in-review", "In-Review",
                    "in_review", "IN_REVIEW"}],
      [status |-> "Done", strings |-> {"done", "Done", "DONE", "completed", "Completed"}],
      [status |-> "Cancelled",
       strings |-> {"cancelled", "CANCELLED", "canceled", "Canceled"}]>>

\* the status the table gives for a string, if any
Tabled(str) == {StatusTable[i].status : i \in {j \in 1..Len(StatusTable) : str \in StatusTable[j].strings}}

InvalidStatus ==
    ErrorReply("Invalid status. Valid values: 'todo', 'inprogress', 'inreview', 'done', 'cancelled'")

\* the caller c takes a step of its tool call
Steps(c) == reply'[c] # reply[c] \/ pending'[c] # pending[c]

\* C21: the status parser accepts, in any letter case, exactly the eleven
\* strings of the table and gives the status of their row, and gives no
\* status for every other string: an update_task call with well-formed ids
\* is refused as an invalid status exactly for the other strings, and a
\* successful one leaves the task with the status of the table.
C21_StatusParser ==
    [][/\ \A str \in StatusStrings : ParseTaskStatus(str) = Tabled(str)
       /\ \A c \in Callers :
            (/\ request[c].tool = "update_task"
             /\ reply[c] = NoReply /\ reply'[c] # NoReply
             /\ request[c].status # {}
             /\ request[c].project_id # "not-a-uuid" /\ request[c].task_id # "not-a-uuid")
            => LET str == Only(request[c].status) IN
               /\ (Tabled(str) = {}) <=> (reply'[c] = InvalidStatus)
               /\ reply'[c].kind = "success" =>
                     \E t \in tasks' : t.id \in reply'[c].task_id /\ {t.status} = Tabled(str)]_vars

\* C21 witness: an update with the status "IN_REVIEW" has left its task in
\* review, and one with "Completed" has made a task Done
C21_Witness ==
    \E c \in Callers :
        /\ request[c].tool = "update_task" /\ reply[c].kind = "success"
        /\ request[c].status \in {{"IN_REVIEW"}, {"Completed"}}
        /\ \E t \in tasks : t.id \in reply[c].task_id /\ t.status \in {"InReview", "Done"}
        /\ request[c].status = {"IN_REVIEW"} => \E t \in tasks : t.status = "InReview"

\* the request of c is one of the validation errors: a malformed project or
\* task id, a project or a task that does not exist, or an unrecognized status
ValidationError(c) ==
    LET task_call == request[c].tool \in {"update_task", "delete_task"} IN
    \/ request[c].project_id = "not-a-uuid"
    \/ request[c].project_id = "00000000-0000-0000-0000-000000000003"
    \/ task_call /\ request[c].task_id = "not-a-uuid"
    \/ task_call /\ ParseUuid(request[c].task_id) \cap {t.id : t \in tasks} = {}
    \/ request[c].tool = "update_task" /\ request[c].status # {}
          /\ Tabled(Only(request[c].status)) = {}

\* the task the call of c read is gone when c comes to write or delete it
TaskGone(c) ==
    /\ pending[c].pc \in {"update", "delete"}
    /\ FindByIdAndProjectId(tasks, pending[c].task_uuid, pending[c].project_uuid) = {}

\* C22: create_task, update_task and delete_task answer a validation error
\* with an error result and leave the task table as it is, be the error
\* found at the entry of the call or, for a task that another call deleted
\* meanwhile, at its write.
C22_ValidationErrorsMutateNothing ==
    [][\A c \in Callers :
         /\ (/\ request[c].tool # "none" /\ reply[c] = NoReply /\ pending[c] = NoPending
             /\ Steps(c) /\ ValidationError(c))
            => reply'[c].kind = "error" /\ tasks' = tasks
         /\ (TaskGone(c) /\ Steps(c))
            => reply'[c].kind = "error" /\ tasks' = tasks]_vars

\* C22 witness: an update of an existing task in its project was refused for
\* its status
C22_Witness ==
    \E c \in Callers :
        /\ request[c].tool = "update_task" /\ reply[c] = InvalidStatus
        /\ \E t \in tasks : /\ {t.id} = ParseUuid(request[c].task_id)
                            /\ {t.project_id} = ParseUuid(request[c].project_id)
        /\ request[c].title # {}

----------------------------------------------------------------------------
\* C23, as claimed: a spawn call of any executor with a task id that no task
\* has launches no child and, unless the lookup itself fails, returns
\* TaskNotFound.
C23_UnknownTaskNoChild ==
    (sp.pc # "off" /\ sp.task_id \notin {t.id : t \in tasks})
        => /\ sp.child.st = "none"
           /\ sp.pc = "returned" => sp.ret \in {"TaskNotFound", "DatabaseError"}

\* the prompt the call is to deliver
FullPrompt ==
    IF sp.executor = "followup" THEN <<"go on">>
    ELSE LET task == Only({t \in tasks : t.id = sp.task_id}) IN
         <<"project_id: ", UuidString(task.project_id),
           "\n            \nTask title: ", task.title>>
         \o (IF task.description = {} THEN <<>>
             ELSE <<"\nTask description: ", Only(task.description)>>)

\* C28: the child is started in a new process group, then the whole prompt is
\* written to its stdin, then the stdin is closed, and only then the handle
\* is returned; a call whose write or close fails returns an error and no
\* handle.
C28_SpawnProtocol ==
    /\ [](sp.pc # "off" =>
            /\ sp.child.input # <<>> => sp.child.st # "none" /\ sp.child.group
            /\ sp.child.stdin = "closed" => sp.child.input = FullPrompt
            /\ sp.ret = "Ok" => /\ sp.child.st = "running" /\ sp.child.group
                                /\ sp.child.stdin = "closed"
            /\ (sp.pc = "returned" /\ sp.child.st # "none" /\ sp.child.stdin # "closed")
                  => sp.ret = "SpawnFailed" /\ sp.child.st = "dropped")
    /\ [][/\ sp'.child.st = "running" /\ sp.child.st = "none"
             => sp'.child.input = <<>> /\ sp'.child.stdin = "open"
          /\ sp'.child.input # sp.child.input => sp.child.st = "running"
          /\ sp'.child.stdin = "closed" /\ sp.child.stdin # "closed"
             => sp.child.input = FullPrompt]_vars

\* C28 witness: the handle of the agent of a task with a description was
\* returned
C28_Witness ==
    /\ sp.pc = "returned" /\ sp.ret = "Ok" /\ sp.executor = "claude"
    /\ Len(sp.child.input) = 6 /\ sp.child.stdin = "closed"

----------------------------------------------------------------------------
\* the limit the claim gives for the request of c: 50 when absent, else the
\* requested one brought into 1..200
ClaimedLimit(c) ==
    IF request[c].limit = {} THEN 50
    ELSE IF Only(request[c].limit) < 1 THEN 1
    ELSE IF Only(request[c].limit) > 200 THEN 200
    ELSE Only(request[c].limit)

\* the tasks of the requested project that have the status of the filter
Eligible(c) ==
    {t \in tasks : /\ {t.project_id} = ParseUuid(request[c].project_id)
                   /\ request[c].status # {} => {t.status} = Tabled(Only(request[c].status))}

\* C33: list_tasks returns at most L tasks, L being the requested limit
\* brought into 1..200 and 50 when absent; the filter comes before the limit
\* (the tasks returned are L of those of the filtered status the table has
\* when it is read, or all of them when they are fewer), every returned task
\* has the filtered status, count is the number of tasks returned and
\* applied_filters.limit is L.
C33_ListLimit ==
    [][\A c \in Callers :
         (request[c].tool = "list_tasks" /\ reply[c] = NoReply /\ reply'[c].kind = "success") =>
            LET got == reply'[c] IN
            /\ Len(got.tasks) <= ClaimedLimit(c)
            /\ Len(got.tasks) = IF Cardinality(Eligible(c)) < ClaimedLimit(c)
                                THEN Cardinality(Eligible(c)) ELSE ClaimedLimit(c)
            /\ \A i \in 1..Len(got.tasks) :
                  /\ \E t \in Eligible(c) : t.id = got.tasks[i].id
                  /\ request[c].status # {} =>
                        {got.tasks[i].status} =
                           {TaskStatusToString(st) : st \in Tabled(Only(request[c].status))}
                  /\ \A j \in 1..Len(got.tasks) :
                        i # j => got.tasks[i].id # got.tasks[j].id
            /\ got.count = Len(got.tasks)
            /\ got.applied_filters.limit = ClaimedLimit(c)]_vars

\* C33 witness: of the three tasks done among more than two hundred, a list
\* of the done ones with limit 2 returned two
C33_Witness ==
    \E c \in Callers :
        /\ request[c].tool = "list_tasks" /\ reply[c].kind = "success"
        /\ Cardinality(tasks) > 200
        /\ request[c].status = {"DONE"} /\ request[c].limit = {2}
        /\ reply[c].count = 2

----------------------------------------------------------------------------
\* the task the update request of c names: the one of its task id in its project
Addressed(c) ==
    {t \in tasks : /\ {t.id} = ParseUuid(request[c].task_id)
                   /\ {t.project_id} = ParseUuid(request[c].project_id)}

\* C39: update_task changes only the fields the request supplies: in every
\* step of an update_task call every task but the one it names stays as it
\* is, no task is added or removed, and the named task keeps its id, its
\* project and the current value of each of the title, description and
\* status that the request omits, the others taking the supplied values
\* when the call succeeds.
C39_UpdateFrame ==
    [][\A c \in Callers :
         (request[c].tool = "update_task" /\ reply[c] = NoReply /\ Steps(c)) =>
            /\ \A t \in tasks \ Addressed(c) : t \in tasks'
            /\ {t.id : t \in tasks'} = {t.id : t \in tasks}
            /\ Cardinality(tasks') = Cardinality(tasks)
            /\ \A t \in Addressed(c) : \E u \in tasks' :
                  /\ u.id = t.id /\ u.project_id = t.project_id
                  /\ u.title = IF request[c].title = {} \/ reply'[c].kind # "success"
                               THEN t.title ELSE Only(request[c].title)
                  /\ u.description =
                        IF request[c].description = {} \/ reply'[c].kind # "success"
                        THEN t.description ELSE request[c].description
                  /\ {u.status} = IF request[c].status = {} \/ reply'[c].kind # "success"
                                  THEN {t.status} ELSE Tabled(Only(request[c].status))]_vars

----------------------------------------------------------------------------
\* C32: has_running_execution(A) is true exactly when the registry holds an
\* entry of attempt A, of whatever kind: a follow-up for A is refused
\* exactly then, the call leaves the registry as it is, and the answer for A
\* turns true only by an insert and false only by a pass of the monitor or
\* by a stop that removes the entry.
C32_HasRunningFrame ==
    /\ [](\A a \in Attempts :
            HasRunningExecution(running_executions, a) <=>
               \E id \in ExecIds : /\ id \in DOMAIN running_executions
                                    /\ running_executions[id].task_attempt_id = a
                                    /\ running_executions[id].execution_type \in ExecutionType)
    /\ [][\A p \in Handlers, a \in Attempts :
            FollowUp(p, a) =>
               /\ running_executions' = running_executions
               /\ (rows' = rows) <=>
                     (\E id \in ExecIds : /\ id \in DOMAIN running_executions
                                          /\ running_executions[id].task_attempt_id = a)]_vars
    /\ [][\A a \in Attempts :
            LET was == HasRunningExecution(running_executions, a)
                is == HasRunningExecution(running_executions', a)
            IN
            /\ (~was /\ is) =>
                  \E id \in DOMAIN running_executions' \ DOMAIN running_executions :
                      running_executions'[id].task_attempt_id = a
            /\ (was /\ ~is) =>
                  \/ mon_pc = "sleep" /\ completed' # <<>>
                  \/ \E p \in Handlers : h[p].pc \in Stopping /\ h'[p].pc = "stopped"
                                         /\ h'[p].ret = "true"]_vars

\* C32 witness: the agent of an attempt has finished and only its dev server
\* is registered, so that a follow-up for the attempt is refused
C32_Witness ==
    /\ lock = 0 /\ \A p \in Handlers : h[p].pc = "idle"
    /\ \E a \in Attempts :
          /\ \E id \in RowIds : /\ rows[id].task_attempt_id = a
                                /\ rows[id].kind = "CodingAgent"
                                /\ rows[id].status = "Completed"
          /\ \E id \in DOMAIN running_executions :
                running_executions[id].task_attempt_id = a
          /\ \A id \in DOMAIN running_executions :
                running_executions[id].execution_type = "DevServer"
          /\ Len(rows) < MaxExec

----------------------------------------------------------------------------
\* the ids the pass of the monitor that ends in this step returns
ReapedNow == IF mon_pc = "sleep" THEN {completed'[i].id : i \in 1..Len(completed')} ELSE {}

\* the ids on which a stop call returns true in this step
StoppedNow ==
    {h[p].id : p \in {q \in Handlers : /\ h[q].pc \in Stopping /\ h'[q].pc = "stopped"
                                       /\ h'[q].ret = "true"}}

\* the ids whose hand-out is still with its receiver: the tuples the monitor
\* works on, and the stop calls that returned true
ReapedPending == {completed[i].id : i \in 1..Len(completed)}
StoppedPending == {h[p].id : p \in {q \in Handlers : h[q].pc = "stopped" /\ h[q].ret = "true"}}

\* C34: each inserted execution id is handed out at most once, by one pass
\* of reap or by one stop that returns true: a hand-out takes a registered
\* id whose row is still Running out of the registry, an id is inserted only
\* once (before its child ever ran), no pass names an id twice, and no id
\* is held at once by the monitor and by a stop, or by two stops.
C34_ExactlyOnce ==
    /\ [](/\ \A i, j \in 1..Len(completed) : i # j => completed[i].id # completed[j].id
          /\ ReapedPending \cap StoppedPending = {}
          /\ (ReapedPending \cup StoppedPending) \cap DOMAIN running_executions = {}
          /\ \A p, q \in Handlers :
                (/\ p # q /\ h[p].pc = "stopped" /\ h[q].pc = "stopped"
                 /\ h[p].ret = "true" /\ h[q].ret = "true") => h[p].id # h[q].id)
    /\ [][/\ ReapedNow \cap StoppedNow = {}
          /\ \A id \in ReapedNow \cup StoppedNow :
                /\ id \in DOMAIN running_executions
                /\ id \notin DOMAIN running_executions'
                /\ rows[id].status = "Running"
                /\ id \notin ReapedPending \cup StoppedPending
          /\ \A id \in DOMAIN running_executions' \ DOMAIN running_executions :
                child[id].st = "none" /\ child'[id].st # "none"
          /\ \A id \in ExecIds : child[id].st # "none" => child'[id].st # "none"]_vars

\* C34 witness: a stop has returned true for one execution while the monitor
\* holds the tuple of another that it reaped
C34_Witness ==
    /\ mon_pc = "update" /\ Len(completed) = 1
    /\ \E p \in Handlers : /\ h[p].pc = "stopped" /\ h[p].ret = "true"
                           /\ h[p].id # completed[1].id
                           /\ rows[h[p].id].task_attempt_id # completed[1].task_attempt_id

----------------------------------------------------------------------------
\* C35: stop takes an entry out of the registry only with its child killed
\* and reaped, after it has awaited the kill and the wait, returning true;
\* until then the entry stays in the map; a stop that fails on the process group
\* lookup, on a signal or on the poll of the child returns an error, neither
\* true nor false, and leaves the entry and its child as they are, for a
\* later pass of the monitor or a later stop to find.
C35_StopRemovesAfterReap ==
  /\ [](\A p \in Handlers :
         /\ h[p].pc \in Stopping => h[p].id \in DOMAIN running_executions
         /\ h[p].pc \in {"kill", "wait"} => HasExited(child[h[p].id]))
  /\ [][\A p \in Handlers :
         /\ (h[p].pc \in Stopping /\ h[p].id \notin DOMAIN running_executions') =>
               /\ h[p].pc = "wait"
               /\ child'[h[p].id].st = "reaped"
               /\ h'[p].pc = "stopped" /\ h'[p].ret = "true"
         /\ (h[p].pc # "stopped" /\ h'[p].pc = "stopped" /\ h'[p].ret = "err") =>
               /\ h'[p].id \in DOMAIN running_executions'
               /\ running_executions' = running_executions
               /\ child' = child
               /\ lock' = 0
         /\ (h[p].pc = "stopped" /\ h[p].ret = "err" /\ h[p].id \in DOMAIN running_executions) =>
               \/ h[p].id \in DOMAIN running_executions'
               \/ h[p].id \in ReapedNow \cup StoppedNow]_vars

\* C35 witness: a stop has returned an error after its signal ended the
\* child; the entry is still registered and the child is not reaped
C35_Witness ==
    \E p \in Handlers :
        /\ h[p].pc = "stopped" /\ h[p].ret = "err"
        /\ h[p].id \in DOMAIN running_executions
        /\ child[h[p].id].st = "exited" /\ child[h[p].id].code = {}

----------------------------------------------------------------------------
\* C36: the registry operations end and release the lock: a stop sends at
\* most three signals, each round sending the next one, then awaits the kill
\* and the wait, and then returns, so
\* a held lock is always released, and the monitor that waits behind a stop
\* to insert gets its turn and goes on with its cycle.
C36_StopEndsLockReleased ==
    /\ [](\A p \in Handlers : h[p].sig <= 3 /\ Len(h[p].sent) <= 3)
    /\ [][\A p \in Handlers :
            /\ (h[p].pc = "sleep" /\ h'[p] # h[p]) =>
                  \/ h'[p].pc = "sleep" /\ h'[p].sig = h[p].sig + 1
                  \/ h'[p].pc = "kill"
                  \/ h'[p].pc = "stopped" /\ lock' = 0
            /\ (h[p].pc = "kill" /\ h'[p] # h[p]) => h'[p].pc = "wait"
            /\ (h[p].pc = "wait" /\ h'[p] # h[p]) => h'[p].pc = "stopped" /\ lock' = 0]_vars
    /\ (lock # 0) ~> (lock = 0)
    /\ (lock # 0 /\ mon_pc = "spawn") ~> (mon_pc # "spawn")

\* C36 witness: a stop is in its third round, after SIGKILL, holding the
\* lock, while the monitor waits to insert the execution it spawned
C36_Witness ==
    /\ lock # 0 /\ h[lock].pc = "sleep" /\ h[lock].sig = 3
    /\ mon_pc = "spawn"

----------------------------------------------------------------------------
\* the todos of the input of the call, if it has a list of them
CallTodos == IF AsArray(call_input.todos) = {} THEN <<>> ELSE call_input.todos.items

HasContent(todo) == AsStr(todo.content) # {}

\* the line the claim gives for a todo: the glyph of its status (pending when
\* it has none), its content and its priority (medium when it has none)
ClaimedLine(todo) ==
    LET status == IF AsStr(todo.status) = {} THEN <<"pending">> ELSE Only(AsStr(todo.status))
        priority == IF AsStr(todo.priority) = {} THEN <<"medium">>
                    ELSE Only(AsStr(todo.priority))
    IN <<IF status = <<"completed">> THEN "done-glyph"
         ELSE IF status = <<"in_progress">> THEN "progress-glyph"
         ELSE IF status = <<"pending">> \/ status = <<"todo">> THEN "pending-glyph"
         ELSE "other-glyph">>
       \o Only(AsStr(todo.content)) \o priority

TodoCallReturned == norm_pc = "content" /\ call_tool \in {"TodoWrite", "todoread"}

\* C31, as claimed: the content of a todowrite or todoread call whose input
\* has a non-empty todos list is "TODO List:" with one line per todo, in list
\* order, and "Managing TODO list" when the list is empty or missing.
C31_TodoRendering ==
    TodoCallReturned =>
        IF CallTodos # <<>>
        THEN \E c \in concise :
                /\ c.fmt = "TODO List:"
                /\ Len(c.args) = Len(CallTodos)
                /\ \A i \in 1..Len(CallTodos) :
                      HasContent(CallTodos[i]) => c.args[i] = ClaimedLine(CallTodos[i])
        ELSE concise = {Fmt("Managing TODO list", <<>>)}

\* C31, amended: the content is "TODO List:" with one line per todo that has
\* a string content, in list order, when the input has a todos list with
\* such a todo, and "Managing TODO list" when the list is empty or missing
\* or none of its todos has a string content.
C31_TodoRenderingOfTodosWithContent ==
    TodoCallReturned =>
        LET shown == SelectSeq(CallTodos, HasContent) IN
        IF shown # <<>>
        THEN concise = {Fmt("TODO List:", [i \in 1..Len(shown) |-> ClaimedLine(shown[i])])}
        ELSE concise = {Fmt("Managing TODO list", <<>>)}

\* C31 witness: a list of four todos, in progress, to do, of an unknown
\* status and of none, was rendered in four lines
C31_Witness ==
    /\ TodoCallReturned
    /\ Len(CallTodos) = 4
    /\ \E c \in concise : c.fmt = "TODO List:" /\ Len(c.args) = 4
                          /\ c.args[2][1] = "pending-glyph" /\ c.args[3][1] = "other-glyph"

----------------------------------------------------------------------------
\* the sequences of a sequence, one after the other
RECURSIVE Concat(_)
Concat(seqs) == IF seqs = <<>> THEN <<>> ELSE seqs[1] \o Concat(Tail(seqs))

\* the entries a line gives when it is normalized alone
OfLine(line) == NormalizeLogs(<<line>>, worktree_path).entries

\* the entries the elements of the content of a message line give, each
\* element taken alone
OfItems(line) ==
    LET json == Docs[Text(line)[1]] IN
    [j \in 1..Len(json.content.items) |->
        ItemEntries(Only(AsStr(json.type))[1], <<json.content.items[j]>>, worktree_path)]

MessageLine(line) ==
    /\ Holds(line, DOMAIN Docs)
    /\ AsStr(Docs[Text(line)[1]].type) \in {{<<"assistant">>}, {<<"user">>}}
    /\ AsArray(Docs[Text(line)[1]].content) # {}

\* C37: the normalizer keeps the order of its input: the entries are those
\* of the first line, then those of the second, and so on, each line giving
\* what it gives alone, and the entries of a message line are those of the
\* elements of its content in their order; a step of the loop only appends.
C37_OrderPreserved ==
    /\ [](norm_pc \in {"scan", "returned"} =>
            /\ entries = Concat([i \in 1..line_no |-> OfLine(logs[i])])
            /\ \A i \in 1..line_no :
                  MessageLine(logs[i]) => OfLine(logs[i]) = Concat(OfItems(logs[i])))
    /\ [][NormalizeLine =>
            /\ Len(entries') >= Len(entries)
            /\ SubSeq(entries', 1, Len(entries)) = entries]_vars

\* C37 witness: a user line, an assistant line with a text and a tool use,
\* and a line that is not JSON gave their four entries in that order
C37_Witness ==
    /\ norm_pc = "returned" /\ Len(logs) = 3 /\ Len(entries) = 4
    /\ entries[1].entry_type = "UserMessage"
    /\ entries[2].entry_type = "AssistantMessage"
    /\ entries[3].entry_type = "ToolUse"
    /\ entries[4].entry_type = "SystemMessage"

============================================================================
